---- MODULE Spec2Model ----
(***************************************************************************)
(* Chart price-annotation core of the trading-chart service:               *)
(*   parse_price, get_price_range, estimate_price_y_position and           *)
(*   annotate_chart of backend/utils/image_annotator.py.                   *)
(*                                                                         *)
(* Strings are sequences of one-character strings.  Numbers are exact      *)
(* decimals m * 10^e (records [m, e], normalised so that m carries no      *)
(* trailing zero); Python's binary floating point rounding is not          *)
(* modelled, every arithmetic step is exact.                               *)
(***************************************************************************)
EXTENDS Integers, Sequences, FiniteSets, TLC

VARIABLES
    pc,          \* position of the call under study: "call" or "return"
    price_str,   \* parse_price: its argument
    parse_ret,   \* parse_price: its return value
    analysis,    \* get_price_range / annotate_chart: the analysis record
    range_ret,   \* get_price_range: its outcome
    pix,         \* estimate_price_y_position: its arguments
    y_ret,       \* estimate_price_y_position: its return value
    image,       \* annotate_chart: the input image (its size)
    ann_ret,     \* annotate_chart: its outcome
    text,        \* extract_json_from_response: its argument
    json_ret,    \* extract_json_from_response: its outcome
    calls,       \* concurrent annotate_chart calls: the frame of each call
    cache,       \* /analyze: the files of the cache directory, by path
    req,         \* /analyze: the request in progress
    resp,        \* /analyze: the response of the last request
    trace        \* /analyze: what the request in progress has done so far

vars == <<pc, price_str, parse_ret, analysis, range_ret, pix, y_ret, image, ann_ret, text,
         json_ret, calls, cache, req, resp, trace>>

----------------------------------------------------------------------------
(* Bounds of the model *)

\* longest token enumerated character by character
MaxTokenLen == 3

\* estimate_price_y_position: prices -1..MaxPrice+1, range ends 0..MaxPrice,
\* image heights 0..MaxHeight, margins 0..MaxMargin
MaxPrice == 4
MaxHeight == 8
MaxMargin == 2

\* get_price_range: number of fields of the record that are present, besides
\* the chart bounds
MaxFields == 2

----------------------------------------------------------------------------
(* Characters and Python string methods *)

Digits == {"0", "1", "2", "3", "4", "5", "6", "7", "8", "9"}

DigitVal(c) ==
    CASE c = "0" -> 0 [] c = "1" -> 1 [] c = "2" -> 2 [] c = "3" -> 3
      [] c = "4" -> 4 [] c = "5" -> 5 [] c = "6" -> 6 [] c = "7" -> 7
      [] c = "8" -> 8 [] c = "9" -> 9

Whitespace == {" ", "\t", "\n"}

\* str.upper() on one character
UpperChar(c) ==
    CASE c = "a" -> "A" [] c = "b" -> "B" [] c = "c" -> "C" [] c = "d" -> "D"
      [] c = "e" -> "E" [] c = "f" -> "F" [] c = "h" -> "H" [] c = "i" -> "I"
      [] c = "k" -> "K" [] c = "l" -> "L" [] c = "m" -> "M" [] c = "n" -> "N"
      [] c = "o" -> "O" [] c = "s" -> "S" [] c = "t" -> "T" [] c = "u" -> "U"
      [] c = "y" -> "Y"
      [] OTHER -> c

\* str.upper()
Upper(s) == [i \in 1..Len(s) |-> UpperChar(s[i])]

\* str.replace(sub, ''): every non-overlapping occurrence, left to right
RECURSIVE RemoveAll(_, _)
RemoveAll(s, sub) ==
    IF Len(s) < Len(sub) THEN s
    ELSE IF SubSeq(s, 1, Len(sub)) = sub
         THEN RemoveAll(SubSeq(s, Len(sub) + 1, Len(s)), sub)
         ELSE <<Head(s)>> \o RemoveAll(Tail(s), sub)

\* sub in s
Contains(s, sub) ==
    \E i \in 1..(Len(s) - Len(sub) + 1) : SubSeq(s, i, i + Len(sub) - 1) = sub

\* s.endswith(sub)
EndsWith(s, sub) ==
    /\ Len(s) >= Len(sub)
    /\ SubSeq(s, Len(s) - Len(sub) + 1, Len(s)) = sub

RECURSIVE LStrip(_)
LStrip(s) ==
    IF s # <<>> /\ Head(s) \in Whitespace THEN LStrip(Tail(s)) ELSE s

RECURSIVE RStrip(_)
RStrip(s) ==
    IF s # <<>> /\ s[Len(s)] \in Whitespace
    THEN RStrip(SubSeq(s, 1, Len(s) - 1)) ELSE s

\* str.strip()
Strip(s) == RStrip(LStrip(s))

\* first index of character c in s, 0 when absent
IndexOf(s, c) ==
    IF \E i \in 1..Len(s) : s[i] = c
    THEN CHOOSE i \in 1..Len(s) : s[i] = c /\ \A j \in 1..(i - 1) : s[j] # c
    ELSE 0

----------------------------------------------------------------------------
(* Exact decimals *)

RECURSIVE Norm(_)
Norm(d) ==
    IF d.m = 0 THEN [m |-> 0, e |-> 0]
    ELSE IF d.m % 10 = 0 THEN Norm([m |-> d.m \div 10, e |-> d.e + 1])
    ELSE d

Dec(n) == Norm([m |-> n, e |-> 0])

RECURSIVE Pow10(_)
Pow10(k) == IF k = 0 THEN 1 ELSE 10 * Pow10(k - 1)

\* the integer d / 10^e0, for e0 <= d.e
Scaled(d, e0) == d.m * Pow10(d.e - e0)

MinExp(a, b) == IF a.e < b.e THEN a.e ELSE b.e

DecLess(a, b) == Scaled(a, MinExp(a, b)) < Scaled(b, MinExp(a, b))
DecLeq(a, b) == Scaled(a, MinExp(a, b)) <= Scaled(b, MinExp(a, b))
DecAdd(a, b) ==
    Norm([m |-> Scaled(a, MinExp(a, b)) + Scaled(b, MinExp(a, b)), e |-> MinExp(a, b)])
DecSub(a, b) ==
    Norm([m |-> Scaled(a, MinExp(a, b)) - Scaled(b, MinExp(a, b)), e |-> MinExp(a, b)])
DecMul(a, b) == Norm([m |-> a.m * b.m, e |-> a.e + b.e])

----------------------------------------------------------------------------
(* float(str): Python's grammar for a float literal in a string *)

\* digit ("_"? digit)*
IsDigitPart(x) ==
    /\ x # <<>>
    /\ x[1] \in Digits
    /\ x[Len(x)] \in Digits
    /\ \A i \in 1..Len(x) : x[i] \in Digits \cup {"_"}
    /\ \A i \in 1..(Len(x) - 1) : ~(x[i] = "_" /\ x[i + 1] = "_")

RECURSIVE DigitsToInt(_)
DigitsToInt(x) ==
    IF x = <<>> THEN 0
    ELSE 10 * DigitsToInt(SubSeq(x, 1, Len(x) - 1)) + DigitVal(x[Len(x)])

OnlyDigits(x) == SelectSeq(x, LAMBDA c : c \in Digits)

HasSign(s) == s # <<>> /\ Head(s) \in {"+", "-"}
Unsigned(s) == IF HasSign(s) THEN Tail(s) ELSE s
SignOf(s) == IF s # <<>> /\ Head(s) = "-" THEN -1 ELSE 1

NotAFloat == [ok |-> FALSE, kind |-> "None", m |-> 0, e |-> 0]

\* a finite value of float(s)
FloatNum(d) == [ok |-> TRUE, kind |-> "num", m |-> d.m, e |-> d.e]

\* nan, inf or -inf as the value of float(s)
FloatSpecial(kind) == [ok |-> TRUE, kind |-> kind, m |-> 0, e |-> 0]

\* the value of an exponent part: an optional sign and digits
ExponentVal(expo) == SignOf(expo) * DigitsToInt(OnlyDigits(Unsigned(expo)))

\* the literal with sign, integer part ip, fraction part fp and, when hasExp,
\* the exponent part expo
FloatOfParts(sign, ip, fp, hasExp, expo) ==
    IF /\ ip = <<>> \/ IsDigitPart(ip)
       /\ fp = <<>> \/ IsDigitPart(fp)
       /\ ip # <<>> \/ fp # <<>>
       /\ ~hasExp \/ IsDigitPart(Unsigned(expo))
    THEN FloatNum(Norm([m |-> sign * DigitsToInt(OnlyDigits(ip) \o OnlyDigits(fp)),
                        e |-> (IF hasExp THEN ExponentVal(expo) ELSE 0)
                              - Len(OnlyDigits(fp))]))
    ELSE NotAFloat

\* the mantissa split at its decimal point, at index dpos (0 when absent)
FloatOfMantissa(sign, mant, dpos, hasExp, expo) ==
    FloatOfParts(sign,
                 IF dpos = 0 THEN mant ELSE SubSeq(mant, 1, dpos - 1),
                 IF dpos = 0 THEN <<>> ELSE SubSeq(mant, dpos + 1, Len(mant)),
                 hasExp, expo)

\* the unsigned literal r split at its "E", at index epos (0 when absent)
FloatOfLiteral(sign, r, epos) ==
    FloatOfMantissa(sign,
                    IF epos = 0 THEN r ELSE SubSeq(r, 1, epos - 1),
                    IndexOf(IF epos = 0 THEN r ELSE SubSeq(r, 1, epos - 1), "."),
                    epos # 0,
                    IF epos = 0 THEN <<>> ELSE SubSeq(r, epos + 1, Len(r)))

\* the stripped, upper-cased string: its sign and what follows the sign
FloatOfUnsigned(sign, r) ==
    IF r = <<"N", "A", "N">> THEN FloatSpecial("nan")
    ELSE IF r = <<"I", "N", "F">> \/ r = <<"I", "N", "F", "I", "N", "I", "T", "Y">>
    THEN FloatSpecial(IF sign = 1 THEN "inf" ELSE "-inf")
    ELSE FloatOfLiteral(sign, r, IndexOf(r, "E"))

FloatOfStripped(t) == FloatOfUnsigned(SignOf(t), Unsigned(t))

\* the value of float(s), or NotAFloat where float(s) raises ValueError
Float(s) == FloatOfStripped(Upper(Strip(s)))

----------------------------------------------------------------------------
(* parse_price *)

\* None, as a return value of parse_price
None == [kind |-> "None", m |-> 0, e |-> 0]

\* a finite float
Num(d) == [kind |-> "num", m |-> d.m, e |-> d.e]

\* the decimal of a finite float
DecOf(v) == [m |-> v.m, e |-> v.e]

\* Cleaned without the upper-casing of line 58
Cleaned_NoUpper(s) ==
    Strip(RemoveAll(RemoveAll(RemoveAll(s, <<"$">>), <<",">>), <<" ">>))

\* line 58: the token with '$', ',' and ' ' removed, stripped and upper-cased
Cleaned(s) ==
    Upper(Strip(RemoveAll(RemoveAll(RemoveAll(s, <<"$">>), <<",">>), <<" ">>)))

MILLION == <<"M", "I", "L", "L", "I", "O", "N">>
MILL == <<"M", "I", "L", "L">>
THOUSAND == <<"T", "H", "O", "U", "S", "A", "N", "D">>

DropLast(s) == SubSeq(s, 1, Len(s) - 1)

\* lines 61-81: the unit found in the cleaned token: what is left of the
\* token and the multiplier
UnitOf(c) ==
    IF Contains(c, MILLION) \/ Contains(c, MILL)
    THEN [cleaned |-> RemoveAll(RemoveAll(c, MILLION), MILL), multiplier |-> 1000000]
    ELSE IF EndsWith(c, <<"K">>) \/ Contains(c, THOUSAND)
    THEN [cleaned |-> IF EndsWith(c, <<"K">>) THEN DropLast(c)
                      ELSE RemoveAll(c, THOUSAND),
          multiplier |-> 1000]
    ELSE IF EndsWith(c, <<"M">>)
    THEN [cleaned |-> DropLast(c), multiplier |-> 1000000]
    ELSE IF EndsWith(c, <<"B">>)
    THEN [cleaned |-> DropLast(c), multiplier |-> 1000000000]
    ELSE [cleaned |-> c, multiplier |-> 1]

\* line 85: price_value * multiplier
TimesMultiplier(f, multiplier) ==
    IF f.kind = "num"
    THEN Num(DecMul(DecOf(f), Dec(multiplier)))
    ELSE [kind |-> f.kind, m |-> 0, e |-> 0]

\* lines 84-91: the float of what is left of the token, times the multiplier,
\* or None where float raises ValueError
ParsedFloat(f, multiplier) == IF f.ok THEN TimesMultiplier(f, multiplier) ELSE None

\* lines 84-91 on the unit u found in the token
ParseUnit(u) == ParsedFloat(Float(u.cleaned), u.multiplier)

parse_price(s) == IF s = <<>> THEN None ELSE ParseUnit(UnitOf(Cleaned(s)))

----------------------------------------------------------------------------
(* estimate_price_y_position *)

IntMin(a, b) == IF a < b THEN a ELSE b
IntMax(a, b) == IF a > b THEN a ELSE b

\* Python's min(a, b) and max(a, b) on numbers
DecMin(a, b) == IF DecLess(b, a) THEN b ELSE a
DecMax(a, b) == IF DecLess(a, b) THEN b ELSE a

\* int(x) of the quotient x = a / b, b > 0: truncation towards zero
TruncDiv(a, b) == IF a >= 0 THEN a \div b ELSE -((-a) \div b)

\* line 41: int(normalized * chart_height), where normalized is the
\* quotient num / den of two decimals clamped to [0, 1], den > 0
PixelOffset(num, den, chart_height) ==
    LET e0 == MinExp(num, den)
        n == IntMax(0, IntMin(Scaled(num, e0), Scaled(den, e0)))
    IN  TruncDiv(n * chart_height, Scaled(den, e0))

\* the interpolation without the clamps of lines 28, 38 and 44
estimate_price_y_position_unclamped(price, min_price, max_price, image_height, chart_top, chart_bottom) ==
    LET chart_height == image_height - chart_top - chart_bottom
        price_range == DecSub(max_price, min_price)
        e0 == MinExp(DecSub(max_price, price), price_range)
    IN  IF price_range.m <= 0
        THEN image_height \div 2
        ELSE chart_top + TruncDiv(Scaled(DecSub(max_price, price), e0) * chart_height,
                                  Scaled(price_range, e0))

\* the interpolation without the inversion of line 35
estimate_price_y_position_not_inverted(price, min_price, max_price, image_height, chart_top, chart_bottom) ==
    LET chart_height == image_height - chart_top - chart_bottom
        price_range == DecSub(max_price, min_price)
        clamped_price == DecMax(min_price, DecMin(price, max_price))
        y_pos == chart_top
                 + PixelOffset(DecSub(clamped_price, min_price), price_range, chart_height)
    IN  IF price_range.m <= 0
        THEN image_height \div 2
        ELSE IntMax(chart_top, IntMin(y_pos, image_height - chart_bottom))

\* the interpolation with the centre of the chart area, not of the image, for
\* a range that is not ordered
estimate_price_y_position_chart_centre(price, min_price, max_price, image_height, chart_top, chart_bottom) ==
    LET chart_height == image_height - chart_top - chart_bottom
        price_range == DecSub(max_price, min_price)
        clamped_price == DecMax(min_price, DecMin(price, max_price))
        y_pos == chart_top
                 + PixelOffset(DecSub(max_price, clamped_price), price_range, chart_height)
    IN  IF price_range.m <= 0
        THEN chart_top + chart_height \div 2
        ELSE IntMax(chart_top, IntMin(y_pos, image_height - chart_bottom))

estimate_price_y_position(price, min_price, max_price, image_height, chart_top, chart_bottom) ==
    LET chart_height == image_height - chart_top - chart_bottom
        price_range == DecSub(max_price, min_price)
        clamped_price == DecMax(min_price, DecMin(price, max_price))
        y_pos == chart_top
                 + PixelOffset(DecSub(max_price, clamped_price), price_range, chart_height)
    IN  IF price_range.m <= 0
        THEN image_height \div 2
        ELSE IntMax(chart_top, IntMin(y_pos, image_height - chart_bottom))

----------------------------------------------------------------------------
(* The analysis record *)

\* entry, stop_loss and the elements of the level lists: a missing or empty
\* value, a mapping with its price token, or a non-empty value that is not a
\* mapping (a JSON string or number)
AbsentField == [kind |-> "absent", price |-> <<>>]
ScalarField == [kind |-> "scalar", price |-> <<>>]
Mapping(t) == [kind |-> "dict", price |-> t]

\* bool(x) of a field and of a token
FieldTruthy(f) == f.kind # "absent"
TokenTruthy(t) == t # <<>>

\* the text of raw_text is kept as what the two patterns of the recovery
\* find in it
NoRawText == [present |-> FALSE, keyword |-> <<>>, generic |-> <<>>]

EmptyAnalysis ==
    [is_dict |-> TRUE,
     chart_min_price |-> <<>>, chart_max_price |-> <<>>, current_price |-> <<>>,
     entry |-> AbsentField, stop_loss |-> AbsentField,
     take_profits |-> <<>>, support_levels |-> <<>>, resistance_levels |-> <<>>,
     parsed |-> "absent", raw_text |-> NoRawText]

----------------------------------------------------------------------------
(* get_price_range *)

Raised == [kind |-> "raise", min |-> [m |-> 0, e |-> 0], max |-> [m |-> 0, e |-> 0]]
Range(lo, hi) == [kind |-> "ok", min |-> lo, max |-> hi]

\* add_price with "if parsed:" in place of "if parsed is not None:"
AddPrice_Truthy(t) ==
    IF TokenTruthy(t) /\ parse_price(t).kind = "num" /\ parse_price(t).m # 0
    THEN <<DecOf(parse_price(t))>> ELSE <<>>

\* lines 119-124, add_price: the prices a token contributes
AddPrice(t) ==
    IF TokenTruthy(t) /\ parse_price(t).kind = "num"
    THEN <<DecOf(parse_price(t))>> ELSE <<>>

\* x.get('price') raises AttributeError when x is not a mapping
GetRaises(f) == f.kind = "scalar"

\* lines 129-133: analysis.get(key) and analysis[key].get('price')
FieldPrices(f) == IF f.kind = "dict" THEN AddPrice(f.price) ELSE <<>>

RECURSIVE LevelPrices(_)
LevelPrices(levels) ==
    IF levels = <<>> THEN <<>>
    ELSE FieldPrices(Head(levels)) \o LevelPrices(Tail(levels))

AnyGetRaises(levels) == \E i \in 1..Len(levels) : GetRaises(levels[i])

\* lines 126-148: the prices collected, in the order of the code
CollectedPrices(a) ==
    AddPrice(a.current_price) \o FieldPrices(a.entry) \o FieldPrices(a.stop_loss)
    \o LevelPrices(a.take_profits) \o LevelPrices(a.support_levels)
    \o LevelPrices(a.resistance_levels)

\* lines 129-148: some .get is applied to a value that is not a mapping
CollectionRaises(a) ==
    \/ GetRaises(a.entry)
    \/ GetRaises(a.stop_loss)
    \/ AnyGetRaises(a.take_profits)
    \/ AnyGetRaises(a.support_levels)
    \/ AnyGetRaises(a.resistance_levels)

RECURSIVE MinOf(_)
MinOf(ps) == IF Len(ps) = 1 THEN ps[1] ELSE DecMin(ps[1], MinOf(Tail(ps)))

RECURSIVE MaxOf(_)
MaxOf(ps) == IF Len(ps) = 1 THEN ps[1] ELSE DecMax(ps[1], MaxOf(Tail(ps)))

\* the padding thresholds with >= in place of >
PaddingPct_Inclusive(price_range) ==
    IF DecLeq(Dec(1000000), price_range) THEN [m |-> 5, e |-> -2]
    ELSE IF DecLeq(Dec(1000), price_range) THEN [m |-> 1, e |-> -1]
    ELSE [m |-> 15, e |-> -2]

\* lines 171-176
PaddingPct(price_range) ==
    IF DecLess(Dec(1000000), price_range) THEN [m |-> 5, e |-> -2]
    ELSE IF DecLess(Dec(1000), price_range) THEN [m |-> 1, e |-> -1]
    ELSE [m |-> 15, e |-> -2]

\* the chart bounds test with "if parsed_min and parsed_max" in place of the
\* tests against None
ChartBoundsUsable_Truthy(a) ==
    /\ TokenTruthy(a.chart_min_price)
    /\ TokenTruthy(a.chart_max_price)
    /\ parse_price(a.chart_min_price).kind = "num"
    /\ parse_price(a.chart_max_price).kind = "num"
    /\ parse_price(a.chart_min_price).m # 0
    /\ parse_price(a.chart_max_price).m # 0
    /\ DecLess(DecOf(parse_price(a.chart_min_price)), DecOf(parse_price(a.chart_max_price)))

\* lines 106-116: the chart's own bounds, when both parse and are ordered
ChartBoundsUsable(a) ==
    /\ TokenTruthy(a.chart_min_price)
    /\ TokenTruthy(a.chart_max_price)
    /\ parse_price(a.chart_min_price).kind = "num"
    /\ parse_price(a.chart_max_price).kind = "num"
    /\ DecLess(DecOf(parse_price(a.chart_min_price)), DecOf(parse_price(a.chart_max_price)))

\* lines 152-161
FewPricesRange(prices) ==
    IF prices # <<>>
    THEN Range(DecMul(prices[1], [m |-> 8, e |-> -1]),
               DecMul(prices[1], [m |-> 12, e |-> -1]))
    ELSE Range(Dec(0), Dec(100))

\* lines 163-186
Padded(min_price, max_price, padding) ==
    Range(DecSub(min_price, padding), DecAdd(max_price, padding))

\* line 178
Padding(price_range) == DecMul(price_range, PaddingPct(price_range))

PaddedBetween(min_price, max_price) ==
    Padded(min_price, max_price, Padding(DecSub(max_price, min_price)))

PaddedRange(prices) == PaddedBetween(MinOf(prices), MaxOf(prices))

\* lines 152-186: the range inferred from the collected prices
InferredRange(prices) ==
    IF Len(prices) < 2 THEN FewPricesRange(prices) ELSE PaddedRange(prices)

get_price_range(a) ==
    IF ChartBoundsUsable(a)
    THEN Range(DecOf(parse_price(a.chart_min_price)), DecOf(parse_price(a.chart_max_price)))
    ELSE IF CollectionRaises(a) THEN Raised
    ELSE InferredRange(CollectedPrices(a))

----------------------------------------------------------------------------
(* annotate_chart *)

\* lines 228-235
HasData(a) ==
    \/ FieldTruthy(a.entry)
    \/ FieldTruthy(a.stop_loss)
    \/ a.take_profits # <<>>
    \/ a.support_levels # <<>>
    \/ a.resistance_levels # <<>>
    \/ TokenTruthy(a.current_price)

\* line 240
RecoveryApplies(a) == ~HasData(a) /\ a.parsed = "false" /\ a.raw_text.present

\* lines 244-249: the keyword pattern's matches, else the generic pattern's
ScrapedPrices(raw) == IF raw.keyword # <<>> THEN raw.keyword ELSE raw.generic

\* a synthesis that keeps a third take profit
Synthesized_ThreeTargets(prices) ==
    [EmptyAnalysis EXCEPT
        !.entry = Mapping(prices[1]),
        !.stop_loss = IF Len(prices) > 1 THEN Mapping(prices[2]) ELSE Mapping(<<>>),
        !.take_profits = IF Len(prices) > 2
                         THEN [i \in 1..IntMin(3, Len(prices) - 2) |-> Mapping(prices[i + 2])]
                         ELSE <<>>,
        !.parsed = "true"]

\* lines 255-260
Synthesized(prices) ==
    [EmptyAnalysis EXCEPT
        !.entry = Mapping(prices[1]),
        !.stop_loss = IF Len(prices) > 1 THEN Mapping(prices[2]) ELSE Mapping(<<>>),
        !.take_profits = IF Len(prices) > 2
                         THEN [i \in 1..IntMin(2, Len(prices) - 2) |-> Mapping(prices[i + 2])]
                         ELSE <<>>,
        !.parsed = "true"]

\* a recovery that does not look at parsed
EffectiveAnalysis_AnyParsed(a) ==
    IF ~HasData(a) /\ a.raw_text.present /\ ScrapedPrices(a.raw_text) # <<>>
    THEN Synthesized(ScrapedPrices(a.raw_text))
    ELSE a

\* lines 240-261: the record the rest of the call works on
EffectiveAnalysis(a) ==
    IF RecoveryApplies(a) /\ ScrapedPrices(a.raw_text) # <<>>
    THEN Synthesized(ScrapedPrices(a.raw_text))
    ELSE a

\* "if p:" of a parse_price result: neither None nor zero
PriceTruthy(v) == v.kind = "num" /\ v.m # 0

\* "if p: all_prices.append(p)"
AppendIfTruthy(p) == IF PriceTruthy(p) THEN <<DecOf(p)>> ELSE <<>>

\* lines 289-292: a key contributes when its value is a mapping
FixFieldPrices(f) ==
    IF f.kind = "dict" /\ TokenTruthy(f.price)
    THEN AppendIfTruthy(parse_price(f.price)) ELSE <<>>

\* lines 293-296
RECURSIVE FixLevelPrices(_)
FixLevelPrices(levels) ==
    IF levels = <<>> THEN <<>>
    ELSE AppendIfTruthy(parse_price(Head(levels).price)) \o FixLevelPrices(Tail(levels))

RECURSIVE SumOf(_)
SumOf(ps) == IF ps = <<>> THEN Dec(0) ELSE DecAdd(ps[1], SumOf(Tail(ps)))

\* d / n for a positive integer n: exact when the quotient has at most four
\* more decimals than d, cut after them otherwise
DecDivInt(d, n) ==
    LET fits == {j \in 0..4 : (d.m * Pow10(j)) % n = 0}
        j == IF fits = {} THEN 4 ELSE CHOOSE k \in fits : \A l \in fits : k <= l
    IN  Norm([m |-> (d.m * Pow10(j)) \div n, e |-> d.e - j])

\* lines 299-300
AroundAverage(avg_price) ==
    Range(DecMul(avg_price, [m |-> 8, e |-> -1]), DecMul(avg_price, [m |-> 12, e |-> -1]))

\* lines 297-303
FixedFrom(all_prices) ==
    IF all_prices # <<>>
    THEN AroundAverage(DecDivInt(SumOf(all_prices), Len(all_prices)))
    ELSE Range(Dec(0), Dec(100))

\* lines 288-303: the range put in place of one with min >= max
FixedRange(a) ==
    IF AnyGetRaises(a.take_profits) THEN Range(Dec(0), Dec(100))
    ELSE FixedFrom(FixFieldPrices(a.entry) \o FixFieldPrices(a.stop_loss)
                   \o FixLevelPrices(a.take_profits))

\* lines 284-306 on the outcome r of get_price_range
Validated(a, r) ==
    IF r.kind = "raise" THEN Range(Dec(0), Dec(100))
    ELSE IF DecLeq(r.max, r.min) THEN FixedRange(a)
    ELSE r

\* lines 280-306
ResolvedRange(a) == Validated(a, get_price_range(a))

\* int(x * pct / 100), lines 310-313
IntPct(x, pct) == (x * pct) \div 100

\* the slice left out
FirstFive_All(levels) == levels

\* "[:5]" of lines 436 and 471
FirstFive(levels) == SubSeq(levels, 1, IntMin(5, Len(levels)))

\* lines 334, 361, 398, 437, 472: a .get on a value that is not a mapping
RenderRaises(a) ==
    \/ GetRaises(a.entry)
    \/ GetRaises(a.stop_loss)
    \/ AnyGetRaises(a.take_profits)
    \/ AnyGetRaises(FirstFive(a.support_levels))
    \/ AnyGetRaises(FirstFive(a.resistance_levels))

\* one drawn element: the field, its position in its list, the label's
\* price text, the parsed price and the Y the mapper gives
Element(elem, idx, label, price, r, img) ==
    [elem |-> elem, idx |-> idx, label |-> label, price |-> price,
     y |-> estimate_price_y_position(price, r.min, r.max, img.height,
                                     IntPct(img.height, 8),
                                     img.height - IntPct(img.height, 92))]

\* lines 336, 363, 400, 439, 474: "if entry_price:" and what it guards
DrawnIfTruthy(elem, idx, label, p, r, img) ==
    IF PriceTruthy(p) THEN <<Element(elem, idx, label, DecOf(p), r, img)>> ELSE <<>>

\* lines 334-358, 361-393, 398-431, 437-466, 472-501: the drawing of a field
FieldElement(elem, idx, f, r, img) ==
    IF f.kind = "dict" /\ TokenTruthy(f.price)
    THEN DrawnIfTruthy(elem, idx, f.price, parse_price(f.price), r, img)
    ELSE <<>>

FieldElements(elem, f, r, img) == FieldElement(elem, 1, f, r, img)

RECURSIVE LevelElements(_, _, _, _, _)
LevelElements(elem, levels, from, r, img) ==
    IF from > Len(levels) THEN <<>>
    ELSE FieldElement(elem, from, levels[from], r, img)
         \o LevelElements(elem, levels, from + 1, r, img)

\* lines 333-501: what is drawn, in drawing order
Elements(a, r, img) ==
    FieldElements("entry", a.entry, r, img)
    \o FieldElements("stop_loss", a.stop_loss, r, img)
    \o LevelElements("take_profit", a.take_profits, 1, r, img)
    \o LevelElements("support", FirstFive(a.support_levels), 1, r, img)
    \o LevelElements("resistance", FirstFive(a.resistance_levels), 1, r, img)

\* image.copy(): the input's pixels, nothing drawn
Copy(img) ==
    [kind |-> "image", size |-> img, min_price |-> Dec(0), max_price |-> Dec(0),
     elements |-> <<>>]

\* the exception leaves annotate_chart
Propagated(img) ==
    [kind |-> "raise", size |-> img, min_price |-> Dec(0), max_price |-> Dec(0),
     elements |-> <<>>]

\* lines 333-504 with the range r: the annotated image
Annotated(img, a, r) ==
    [kind |-> "image", size |-> img, min_price |-> r.min, max_price |-> r.max,
     elements |-> Elements(a, r, img)]

\* lines 264-504 on the record a the recovery leaves
AnnotateRecord(img, a) ==
    IF ~HasData(a) THEN Copy(img)
    ELSE IF RenderRaises(a) THEN Propagated(img)
    ELSE Annotated(img, a, ResolvedRange(a))

annotate_chart(img, analysis0) ==
    IF ~analysis0.is_dict THEN Copy(img)
    ELSE AnnotateRecord(img, EffectiveAnalysis(analysis0))

\* a drawing made on the input image itself
InputImageAfter_DrawnOn(img, out) ==
    IF out.elements = <<>> THEN img
    ELSE [width |-> img.width, height |-> img.height, drawn |-> out.elements]

\* lines 225, 266, 272-275: the input image after the call that gave out.
\* Every path copies the image first and the drawing goes to the copy.
InputImageAfter(img, out) == img

\* lines 255-260: the caller's record after the call.  The recovery binds
\* the local name to a new dictionary; no statement writes to the record.
InputRecordAfter(a) == a

----------------------------------------------------------------------------
(* Calls of parse_price *)

\* value of the variables a call does not use
Unused == <<>>

\* characters of the tokens enumerated exhaustively
TokenAlphabet ==
    {"0", "1", "5", ".", "-", "$", ",", " ", "K", "m", "B", "n", "a", "e"}

\* written numerals and the numbers they denote
Numerals ==
    { [text |-> <<"0">>, val |-> [m |-> 0, e |-> 0]],
      [text |-> <<"5">>, val |-> [m |-> 5, e |-> 0]],
      [text |-> <<"3", "0", "0">>, val |-> [m |-> 3, e |-> 2]],
      [text |-> <<"1", ".", "5">>, val |-> [m |-> 15, e |-> -1]],
      [text |-> <<"0", ".", "5">>, val |-> [m |-> 5, e |-> -1]],
      [text |-> <<"4", "5", "0", "0", "0">>, val |-> [m |-> 45, e |-> 3]],
      [text |-> <<"1", ",", "2", "3", "4", ".", "5", "0">>, val |-> [m |-> 12345, e |-> -1]] }

\* written units, by the name the unit has in the vocabulary
UnitForms ==
    { [text |-> <<>>, unit |-> "none"],
      [text |-> <<"K">>, unit |-> "K"],
      [text |-> <<"k">>, unit |-> "K"],
      [text |-> <<"T", "H", "O", "U", "S", "A", "N", "D">>, unit |-> "K"],
      [text |-> <<"t", "h", "o", "u", "s", "a", "n", "d">>, unit |-> "K"],
      [text |-> <<"M">>, unit |-> "M"],
      [text |-> <<"m">>, unit |-> "M"],
      [text |-> <<"M", "I", "L", "L">>, unit |-> "M"],
      [text |-> <<"m", "i", "l", "l">>, unit |-> "M"],
      [text |-> <<"M", "I", "L", "L", "I", "O", "N">>, unit |-> "M"],
      [text |-> <<"M", "i", "l", "l", "i", "o", "n">>, unit |-> "M"],
      [text |-> <<"B">>, unit |-> "B"],
      [text |-> <<"b">>, unit |-> "B"] }

Paddings == {<<>>, <<" ">>, <<"\t">>}
Gaps == {<<>>, <<" ">>, <<"\t">>}

\* a price as a person writes it: padding, '$', numeral, unit, padding
Written(lead, dollar, n, gap, u, trail) ==
    lead \o (IF dollar THEN <<"$">> ELSE <<>>) \o n.text \o gap \o u.text \o trail

\* parse_price is called on any short token
InitParse ==
    /\ pc = "call"
    /\ calls = Unused
    /\ cache = Unused
    /\ req = Unused
    /\ resp = Unused
    /\ trace = Unused
    /\ text = Unused
    /\ json_ret = Unused
    /\ \E n \in 0..MaxTokenLen : price_str \in [1..n -> TokenAlphabet]
    /\ parse_ret = Unused
    /\ analysis = Unused
    /\ range_ret = Unused
    /\ pix = Unused
    /\ y_ret = Unused
    /\ image = Unused
    /\ ann_ret = Unused

\* parse_price is called on a written price
InitParseWritten ==
    /\ pc = "call"
    /\ calls = Unused
    /\ cache = Unused
    /\ req = Unused
    /\ resp = Unused
    /\ trace = Unused
    /\ text = Unused
    /\ json_ret = Unused
    /\ \E lead \in Paddings, dollar \in BOOLEAN, n \in Numerals, gap \in Gaps,
          u \in UnitForms, trail \in Paddings :
          price_str = Written(lead, dollar, n, gap, u, trail)
    /\ parse_ret = Unused
    /\ analysis = Unused
    /\ range_ret = Unused
    /\ pix = Unused
    /\ y_ret = Unused
    /\ image = Unused
    /\ ann_ret = Unused

ParsePrice ==
    /\ pc = "call"
    /\ parse_ret' = parse_price(price_str)
    /\ pc' = "return"
    /\ UNCHANGED <<price_str, analysis, range_ret, pix, y_ret, image, ann_ret, text, json_ret, calls, cache, req, resp, trace>>

SpecParse == InitParse /\ [][ParsePrice]_vars

SpecParseWritten == InitParseWritten /\ [][ParsePrice]_vars

----------------------------------------------------------------------------
(* Calls of estimate_price_y_position *)

PixArgs(price, min_price, max_price, image_height, chart_top, chart_bottom) ==
    [price |-> Dec(price), min_price |-> Dec(min_price), max_price |-> Dec(max_price),
     image_height |-> image_height, chart_top |-> chart_top,
     chart_bottom |-> chart_bottom]

\* calls with the default margins 50 and 50 of the signature (line 14) on the
\* range (0, 100): image heights 1000 and 60
ExamplePixArgs ==
    {PixArgs(p, 0, 100, h, 50, 50) : p \in {-20, 0, 25, 50, 100, 150}, h \in {60, 1000}}

InitPixel ==
    /\ pc = "call"
    /\ calls = Unused
    /\ cache = Unused
    /\ req = Unused
    /\ resp = Unused
    /\ trace = Unused
    /\ text = Unused
    /\ json_ret = Unused
    /\ \/ pix \in ExamplePixArgs
       \/ \E price \in -1..(MaxPrice + 1), lo \in 0..MaxPrice, hi \in 0..MaxPrice,
             h \in 0..MaxHeight, top \in 0..MaxMargin, bottom \in 0..MaxMargin :
             pix = PixArgs(price, lo, hi, h, top, bottom)
    /\ y_ret = Unused
    /\ price_str = Unused
    /\ parse_ret = Unused
    /\ analysis = Unused
    /\ range_ret = Unused
    /\ image = Unused
    /\ ann_ret = Unused

EstimatePriceY ==
    /\ pc = "call"
    /\ y_ret' = estimate_price_y_position(pix.price, pix.min_price, pix.max_price,
                                          pix.image_height, pix.chart_top,
                                          pix.chart_bottom)
    /\ pc' = "return"
    /\ UNCHANGED <<price_str, parse_ret, analysis, range_ret, pix, image, ann_ret, text, json_ret, calls, cache, req, resp, trace>>

SpecPixel == InitPixel /\ [][EstimatePriceY]_vars

----------------------------------------------------------------------------
(* Calls of get_price_range *)

T_abc == <<"a", "b", "c">>
T_0 == <<"0">>
T_neg5 == <<"-", "5">>
T_100 == <<"1", "0", "0">>
T_1K == <<"1", "K">>
T_1M == <<"1", "M">>
T_2M == <<"2", "M">>
T_half_M == <<"0", ".", "5", "M">>

\* price tokens of the records
RangeTokens == {T_abc, T_0, T_neg5, T_100, T_1K, T_1M, T_2M}

\* chart_min_price and chart_max_price of the records
ChartCases ==
    { <<<<>>, <<>>>>, <<T_half_M, T_2M>>, <<T_0, T_1K>>, <<T_2M, T_half_M>>,
      <<T_abc, T_2M>>, <<T_100, T_100>>, <<T_0, <<>>>> }

\* the fields a record may hold besides the chart bounds
Slots == {"current_price", "entry", "stop_loss", "tp1", "tp2", "support", "resistance"}

SlotValues == {Mapping(t) : t \in RangeTokens} \cup {ScalarField}

\* the values of a list's slots that are present, in order
ListOf(f, names) ==
    LET present == SelectSeq(names, LAMBDA n : n \in DOMAIN f)
    IN  [i \in 1..Len(present) |-> f[present[i]]]

\* the record with chart bounds c and the fields f
Record(c, f) ==
    [EmptyAnalysis EXCEPT
        !.chart_min_price = c[1],
        !.chart_max_price = c[2],
        !.current_price = IF "current_price" \in DOMAIN f THEN f["current_price"].price
                          ELSE <<>>,
        !.entry = IF "entry" \in DOMAIN f THEN f["entry"] ELSE AbsentField,
        !.stop_loss = IF "stop_loss" \in DOMAIN f THEN f["stop_loss"] ELSE AbsentField,
        !.take_profits = ListOf(f, <<"tp1", "tp2">>),
        !.support_levels = ListOf(f, <<"support">>),
        !.resistance_levels = ListOf(f, <<"resistance">>)]

\* the sets of fields a record holds: at most MaxFields of them
FieldSets == {S \in SUBSET Slots : Cardinality(S) <= MaxFields}

InitRange ==
    /\ pc = "call"
    /\ calls = Unused
    /\ cache = Unused
    /\ req = Unused
    /\ resp = Unused
    /\ trace = Unused
    /\ text = Unused
    /\ json_ret = Unused
    /\ \E present \in FieldSets, c \in ChartCases :
          \E f \in [present -> SlotValues] : analysis = Record(c, f)
    /\ range_ret = Unused
    /\ price_str = Unused
    /\ parse_ret = Unused
    /\ pix = Unused
    /\ y_ret = Unused
    /\ image = Unused
    /\ ann_ret = Unused

GetPriceRange ==
    /\ pc = "call"
    /\ range_ret' = get_price_range(analysis)
    /\ pc' = "return"
    /\ UNCHANGED <<price_str, parse_ret, analysis, pix, y_ret, image, ann_ret, text, json_ret, calls, cache, req, resp, trace>>

SpecRange == InitRange /\ [][GetPriceRange]_vars

----------------------------------------------------------------------------
(* Calls of annotate_chart *)

Images == {[width |-> 200, height |-> 100], [width |-> 1000, height |-> 1000]}

\* price tokens of the annotated records
AnnotateTokens == {T_abc, T_0, T_neg5, T_100, T_1K}

AnnotateSlotValues == {Mapping(t) : t \in AnnotateTokens} \cup {ScalarField}

\* what the patterns find in the raw texts of the records without data
RawTexts ==
    { NoRawText,
      [present |-> TRUE, keyword |-> <<>>, generic |-> <<>>],
      [present |-> TRUE, keyword |-> <<T_100>>, generic |-> <<T_100>>],
      [present |-> TRUE, keyword |-> <<>>, generic |-> <<T_100, T_0>>],
      [present |-> TRUE, keyword |-> <<T_100, T_0, T_1K>>, generic |-> <<>>],
      [present |-> TRUE, keyword |-> <<T_1K, T_100, T_0, T_100, T_1K>>, generic |-> <<T_0>>] }

RawRecords ==
    { [EmptyAnalysis EXCEPT !.parsed = p, !.raw_text = t] :
        p \in {"absent", "true", "false"}, t \in RawTexts }

\* a response that is not a JSON object
NotADict == [EmptyAnalysis EXCEPT !.is_dict = FALSE]

T_44000 == <<"4", "4", "0", "0", "0">>
T_45000 == <<"4", "5", "0", "0", "0">>
T_47000 == <<"4", "7", "0", "0", "0">>
T_49000 == <<"4", "9", "0", "0", "0">>

\* a trade setup with an entry, a stop loss and two take profits
TradeSetup ==
    [EmptyAnalysis EXCEPT
        !.entry = Mapping(T_45000),
        !.stop_loss = Mapping(T_44000),
        !.take_profits = <<Mapping(T_47000), Mapping(T_49000)>>]

\* six support and seven resistance levels
ManyLevels ==
    [EmptyAnalysis EXCEPT
        !.support_levels = <<Mapping(T_100), Mapping(T_1K), Mapping(T_44000),
                             Mapping(T_45000), Mapping(T_47000), Mapping(T_49000)>>,
        !.resistance_levels = <<Mapping(T_49000), Mapping(T_47000), Mapping(T_45000),
                                Mapping(T_44000), Mapping(T_1K), Mapping(T_100),
                                Mapping(T_neg5)>>]

\* records with more fields than FieldSets gives
ExampleRecords == {TradeSetup, ManyLevels}

InitAnnotate ==
    /\ pc = "call"
    /\ calls = Unused
    /\ cache = Unused
    /\ req = Unused
    /\ resp = Unused
    /\ trace = Unused
    /\ text = Unused
    /\ json_ret = Unused
    /\ image \in Images
    /\ \/ analysis \in RawRecords \cup {NotADict} \cup ExampleRecords
       \/ \E present \in FieldSets, c \in ChartCases :
             \E f \in [present -> AnnotateSlotValues] : analysis = Record(c, f)
    /\ ann_ret = Unused
    /\ range_ret = Unused
    /\ price_str = Unused
    /\ parse_ret = Unused
    /\ pix = Unused
    /\ y_ret = Unused

AnnotateChart ==
    /\ pc = "call"
    /\ ann_ret' = annotate_chart(image, analysis)
    /\ image' = InputImageAfter(image, ann_ret')
    /\ analysis' = InputRecordAfter(analysis)
    /\ pc' = "return"
    /\ UNCHANGED <<price_str, parse_ret, range_ret, pix, y_ret, text, json_ret, calls, cache, req, resp, trace>>

SpecAnnotate == InitAnnotate /\ [][AnnotateChart]_vars

----------------------------------------------------------------------------
(* Properties *)

\* C1: annotate_chart returns an image and never raises to its caller, for
\* every record, also when entry or stop_loss or an element of a level list
\* is not a mapping.
C1_AnnotateNeverRaises == pc = "return" => ann_ret.kind = "image"

\* C2: whenever annotate_chart hands a price range to the pixel mapper, the
\* range satisfies min < max strictly.
C2_MapperRangeOrdered ==
    (pc = "return" /\ ann_ret.kind = "image" /\ ann_ret.elements # <<>>)
        => DecLess(ann_ret.min_price, ann_ret.max_price)

\* digits with at most one decimal point and at least one digit
IsPlainDecimal(x) ==
    /\ \A i \in 1..Len(x) : x[i] \in Digits \cup {"."}
    /\ Cardinality({i \in 1..Len(x) : x[i] = "."}) <= 1
    /\ \E i \in 1..Len(x) : x[i] \in Digits

\* a decimal numeral, read generously: an optional sign, a plain decimal and
\* an optional exponent
IsDecimalNumeral(c) ==
    LET r == Unsigned(c)
        epos == IndexOf(r, "E")
        expo == Unsigned(SubSeq(r, epos + 1, Len(r)))
    IN  IF epos = 0 THEN IsPlainDecimal(r)
        ELSE /\ IsPlainDecimal(SubSeq(r, 1, epos - 1))
             /\ expo # <<>>
             /\ \A i \in 1..Len(expo) : expo[i] \in Digits

\* C3: when the token, cleaned of '$', ',', whitespace and a recognised unit,
\* is not a valid decimal numeral, parse_price returns None.
C3_NonNumeralIsNone ==
    (pc = "return" /\ ~IsDecimalNumeral(UnitOf(Cleaned(price_str)).cleaned))
        => parse_ret = None

\* the multiplier the vocabulary gives a unit
UnitMultiplier(unit) ==
    CASE unit = "none" -> [m |-> 1, e |-> 0]
      [] unit = "K" -> [m |-> 1, e |-> 3]
      [] unit = "M" -> [m |-> 1, e |-> 6]
      [] unit = "B" -> [m |-> 1, e |-> 9]

\* every written price with the number of its numeral and its unit
WrittenPrices ==
    { <<Written(lead, dollar, n, gap, u, trail), n.val, u.unit>> :
        lead \in Paddings, dollar \in BOOLEAN, n \in Numerals, gap \in Gaps,
        u \in UnitForms, trail \in Paddings }

\* C4: a written price (numeral n, optional '$', ',' separators, whitespace,
\* at most one unit, in any letter case) parses to n times the multiplier of
\* its unit: 1 without unit, 10^3 for K and THOUSAND, 10^6 for M, MILL and
\* MILLION, 10^9 for B.
C4_WrittenPriceValue ==
    pc = "return" =>
        \A w \in WrittenPrices :
            w[1] = price_str => parse_ret = Num(DecMul(w[2], UnitMultiplier(w[3])))

C4_Witness ==
    /\ pc = "return"
    /\ price_str = <<"$", "1", ",", "2", "3", "4", ".", "5", "0", " ",
                     "M", "i", "l", "l", "i", "o", "n">>
    /\ parse_ret = [kind |-> "num", m |-> 12345, e |-> 5]

\* the parsed chart bounds of a record
ParsedChartMin(a) == parse_price(a.chart_min_price)
ParsedChartMax(a) == parse_price(a.chart_max_price)

BoundsParseOrdered(a) ==
    /\ ParsedChartMin(a).kind = "num"
    /\ ParsedChartMax(a).kind = "num"
    /\ DecLess(DecOf(ParsedChartMin(a)), DecOf(ParsedChartMax(a)))

RECURSIVE TokensOf(_)
TokensOf(levels) ==
    IF levels = <<>> THEN <<>> ELSE <<Head(levels).price>> \o TokensOf(Tail(levels))

PriceTokens(a) ==
    <<a.current_price, a.entry.price, a.stop_loss.price>>
    \o TokensOf(a.take_profits) \o TokensOf(a.support_levels)
    \o TokensOf(a.resistance_levels)

\* the numbers the price tokens of a record parse to
RECURSIVE ParsedOf(_)
ParsedOf(tokens) ==
    IF tokens = <<>> THEN <<>>
    ELSE (IF parse_price(Head(tokens)).kind = "num"
          THEN <<DecOf(parse_price(Head(tokens)))>> ELSE <<>>)
         \o ParsedOf(Tail(tokens))

\* every field of the record that is present is a mapping
AllMappings(a) ==
    /\ a.entry.kind # "scalar"
    /\ a.stop_loss.kind # "scalar"
    /\ \A i \in 1..Len(a.take_profits) : a.take_profits[i].kind = "dict"
    /\ \A i \in 1..Len(a.support_levels) : a.support_levels[i].kind = "dict"
    /\ \A i \in 1..Len(a.resistance_levels) : a.resistance_levels[i].kind = "dict"

InferredFrom(a) == AllMappings(a) /\ ~BoundsParseOrdered(a)

\* C6: without usable chart bounds and with fewer than two parsable prices,
\* get_price_range returns (v * 0.8, v * 1.2) for the one price v, and
\* (0, 100) when there is none; an unparsable price is skipped and the call
\* returns.
C6_FewPrices ==
    (pc = "return" /\ InferredFrom(analysis)) =>
        LET ps == ParsedOf(PriceTokens(analysis))
        IN  /\ range_ret.kind = "ok"
            /\ Len(ps) = 1 =>
                  range_ret = Range(DecMul(ps[1], [m |-> 8, e |-> -1]),
                                    DecMul(ps[1], [m |-> 12, e |-> -1]))
            /\ Len(ps) = 0 => range_ret = Range(Dec(0), Dec(100))

C6_Witness ==
    /\ pc = "return"
    /\ analysis.entry = Mapping(T_abc)
    /\ analysis.stop_loss = Mapping(T_100)
    /\ ~BoundsParseOrdered(analysis)
    /\ range_ret = Range(Dec(80), Dec(120))

\* the padding fraction of a span
PaddingFraction(span) ==
    IF DecLess(Dec(1000000), span) THEN [m |-> 5, e |-> -2]
    ELSE IF DecLess(Dec(1000), span) THEN [m |-> 10, e |-> -2]
    ELSE [m |-> 15, e |-> -2]

\* C7: without usable chart bounds and with at least two parsable prices,
\* get_price_range returns (lo - span * f, hi + span * f), lo the least and
\* hi the greatest price, span = hi - lo, f = 5% when span > 1,000,000, else
\* 10% when span > 1,000, else 15%.
C7_PaddedRange ==
    (pc = "return" /\ InferredFrom(analysis)) =>
        LET ps == ParsedOf(PriceTokens(analysis))
            set == {ps[i] : i \in 1..Len(ps)}
            lo == CHOOSE x \in set : \A y \in set : DecLeq(x, y)
            hi == CHOOSE x \in set : \A y \in set : DecLeq(y, x)
            span == DecSub(hi, lo)
            pad == DecMul(span, PaddingFraction(span))
        IN  Len(ps) >= 2 => range_ret = Range(DecSub(lo, pad), DecAdd(hi, pad))

C7_Witness ==
    /\ pc = "return"
    /\ analysis.entry = Mapping(T_0)
    /\ analysis.stop_loss = Mapping(T_1M)
    /\ ~BoundsParseOrdered(analysis)
    /\ range_ret = Range(Dec(-100000), Dec(1100000))

RangeOrdered == DecLess(pix.min_price, pix.max_price)
MarginsFit == pix.chart_top + pix.chart_bottom <= pix.image_height

\* C8 as stated: for every price, every range with min < max and every image
\* height and pair of margins, chartTopMargin <= Y <= imageHeight -
\* chartBottomMargin.
C8_YWithinMargins_AnyMargins ==
    (pc = "return" /\ RangeOrdered) =>
        /\ pix.chart_top <= y_ret
        /\ y_ret <= pix.image_height - pix.chart_bottom

\* C8 (amended): for every price and every range with min < max, and for
\* margins that fit in the image (chartTopMargin + chartBottomMargin <=
\* imageHeight), chartTopMargin <= Y <= imageHeight - chartBottomMargin.
C8_YWithinMargins ==
    (pc = "return" /\ RangeOrdered /\ MarginsFit) =>
        /\ pix.chart_top <= y_ret
        /\ y_ret <= pix.image_height - pix.chart_bottom

C8_Witness ==
    /\ pc = "return"
    /\ RangeOrdered
    /\ MarginsFit
    /\ DecLess(pix.max_price, pix.price)
    /\ pix.chart_top > 0
    /\ y_ret = pix.chart_top

\* Y of the same call with another price
YAt(price) ==
    estimate_price_y_position(price, pix.min_price, pix.max_price, pix.image_height,
                              pix.chart_top, pix.chart_bottom)

\* C9 as stated: for a range with min < max, every price >= max yields the Y
\* of price = max, which is chartTopMargin, and every price <= min yields the
\* Y of price = min, which is imageHeight - chartBottomMargin.
C9_ClampToEdges_AnyMargins ==
    (pc = "return" /\ RangeOrdered) =>
        /\ DecLeq(pix.max_price, pix.price) =>
              y_ret = YAt(pix.max_price) /\ y_ret = pix.chart_top
        /\ DecLeq(pix.price, pix.min_price) =>
              y_ret = YAt(pix.min_price) /\ y_ret = pix.image_height - pix.chart_bottom

\* C9 (amended): for a range with min < max, every price >= max yields the Y
\* of price = max, which is chartTopMargin, and every price <= min yields the
\* Y of price = min, which is imageHeight - chartBottomMargin when the margins
\* fit in the image and chartTopMargin when they do not.
C9_ClampToEdges ==
    (pc = "return" /\ RangeOrdered) =>
        /\ DecLeq(pix.max_price, pix.price) =>
              y_ret = YAt(pix.max_price) /\ y_ret = pix.chart_top
        /\ DecLeq(pix.price, pix.min_price) =>
              /\ y_ret = YAt(pix.min_price)
              /\ y_ret = IF MarginsFit THEN pix.image_height - pix.chart_bottom
                         ELSE pix.chart_top

C9_Witness ==
    /\ pc = "return"
    /\ pix = PixArgs(150, 0, 100, 1000, 50, 50)
    /\ y_ret = 50
    /\ YAt(Dec(100)) = 50
    /\ YAt(Dec(0)) = 950

\* C10: for a price inside a range with min < max (and margins that fit in
\* the image), Y - chartTopMargin is normalized * chartHeight rounded to the
\* nearest integer: it differs from (max - price) * chartHeight / (max - min)
\* by at most one half.
C10_OffsetRounded ==
    (/\ pc = "return"
     /\ RangeOrdered
     /\ MarginsFit
     /\ DecLeq(pix.min_price, pix.price)
     /\ DecLeq(pix.price, pix.max_price)) =>
        LET e0 == MinExp(DecSub(pix.max_price, pix.price),
                         DecSub(pix.max_price, pix.min_price))
            num == Scaled(DecSub(pix.max_price, pix.price), e0)
                   * (pix.image_height - pix.chart_top - pix.chart_bottom)
            den == Scaled(DecSub(pix.max_price, pix.min_price), e0)
            off == y_ret - pix.chart_top
        IN  /\ 2 * num - 2 * den * off <= den
            /\ 2 * den * off - 2 * num <= den

\* C11: when max equals min, estimate_price_y_position returns the vertical
\* centre of the image, imageHeight / 2 (the integer quotient), for every
\* price and every pair of margins.
C11_DegenerateCentre ==
    (pc = "return" /\ pix.max_price = pix.min_price) =>
        y_ret = pix.image_height \div 2

C11_Witness ==
    /\ pc = "return"
    /\ pix.max_price = pix.min_price
    /\ pix.image_height = 7
    /\ pix.chart_top = 2
    /\ pix.chart_bottom = 1
    /\ DecLess(pix.max_price, pix.price)
    /\ y_ret = 3

\* Y of the element drawn for the field elem at position idx of its list
YOf(elem, idx) ==
    LET i == CHOOSE k \in 1..Len(ann_ret.elements) :
                 ann_ret.elements[k].elem = elem /\ ann_ret.elements[k].idx = idx
    IN  ann_ret.elements[i].y

\* C12: on a 1000x1000 image the record entry 45000, stop_loss 44000,
\* take_profits 47000 and 49000 gets its stop-loss line at a Y strictly
\* greater than the Y of each take-profit line and of the entry marker; and
\* in every annotated image an element with a lower price never has a
\* smaller Y than an element with a higher price.
C12_LowerPriceLowerOnChart ==
    (pc = "return" /\ ann_ret.kind = "image") =>
        /\ (analysis = TradeSetup /\ image.height = 1000) =>
              /\ Len(ann_ret.elements) = 4
              /\ YOf("stop_loss", 1) > YOf("take_profit", 1)
              /\ YOf("stop_loss", 1) > YOf("take_profit", 2)
              /\ YOf("stop_loss", 1) > YOf("entry", 1)
        /\ \A i, j \in 1..Len(ann_ret.elements) :
              DecLess(ann_ret.elements[i].price, ann_ret.elements[j].price)
                  => ann_ret.elements[i].y >= ann_ret.elements[j].y

C12_Witness ==
    /\ pc = "return"
    /\ analysis = TradeSetup
    /\ image = [width |-> 1000, height |-> 1000]
    /\ ann_ret.kind = "image"
    /\ ann_ret.min_price = Dec(43500)
    /\ ann_ret.max_price = Dec(49500)
    /\ YOf("entry", 1) = 710
    /\ YOf("stop_loss", 1) = 850
    /\ YOf("take_profit", 1) = 430
    /\ YOf("take_profit", 2) = 150

----------------------------------------------------------------------------
(* extract_json_from_response (main.py) *)

\* The response text is a sequence of pieces; a piece is a run of characters
\* that the two patterns and the JSON decoder treat as a unit.
\* three backticks
FENCE == "<fence>"
TAG == "json"
NEWLINE == "\n"
OPEN == "{"
CLOSE == "}"
KEY_K == "\"k\":"
KEY_J == "\"j\":"
ONE == "1"
COMMA == ","
PROSE == "Here is the analysis"

\* an object opened inside an object, again and again, beyond the depth at
\* which the decoder raises RecursionError, and as many closing braces
DEEP_OPEN == "{\"k\":{\"k\": ..."
DEEP_CLOSE == "}} ..."

\* JSON values: the numbers 1, 11, 111, ... by their count of digits, and
\* objects as maps from key to value
JsonNumber(digits) == [type |-> "number", digits |-> digits, members |-> <<>>]
JsonObject(members) == [type |-> "object", digits |-> 0, members |-> members]

\* dict[name] = value
Put(members, name, value) ==
    [n \in DOMAIN members \cup {name} |-> IF n = name THEN value ELSE members[n]]

\* outcomes of the decoder: a value and the index after it, or an exception
Decoded(value, next) == [status |-> "ok", value |-> value, next |-> next]
JSONDecodeError == [status |-> "JSONDecodeError", value |-> JsonNumber(0), next |-> 0]
RecursionError == [status |-> "RecursionError", value |-> JsonNumber(0), next |-> 0]

\* the first index from i on that holds no digit
RECURSIVE SkipDigits(_, _)
SkipDigits(s, i) ==
    IF i <= Len(s) /\ s[i] = ONE THEN SkipDigits(s, i + 1) ELSE i

\* the first index from i on that holds no whitespace
RECURSIVE SkipWhitespace(_, _)
SkipWhitespace(s, i) ==
    IF i <= Len(s) /\ s[i] = NEWLINE THEN SkipWhitespace(s, i + 1) ELSE i

RECURSIVE ParseValue(_, _)
RECURSIVE ParseMembers(_, _, _, _)
RECURSIVE WithMember(_, _, _, _)

\* the decoder on the value r of a member: the member is stored, the scan goes on
WithMember(s, members, name, r) ==
    IF r.status # "ok" THEN r
    ELSE ParseMembers(s, SkipWhitespace(s, r.next), Put(members, name, r.value), "after")

\* the decoder inside an object, at the piece i: state is first after the
\* opening brace, after after a member and key after a comma
ParseMembers(s, i, members, state) ==
    IF i > Len(s) THEN JSONDecodeError
    ELSE IF s[i] = CLOSE /\ state \in {"first", "after"}
    THEN Decoded(JsonObject(members), i + 1)
    ELSE IF s[i] \in {KEY_K, KEY_J} /\ state \in {"first", "key"}
    THEN WithMember(s, members, IF s[i] = KEY_K THEN "k" ELSE "j",
                    ParseValue(s, SkipWhitespace(s, i + 1)))
    ELSE IF s[i] = COMMA /\ state = "after"
    THEN ParseMembers(s, SkipWhitespace(s, i + 1), members, "key")
    ELSE JSONDecodeError

\* the decoder on a value at the piece i
ParseValue(s, i) ==
    IF i > Len(s) THEN JSONDecodeError
    ELSE IF s[i] = ONE THEN Decoded(JsonNumber(SkipDigits(s, i) - i), SkipDigits(s, i))
    ELSE IF s[i] = OPEN THEN ParseMembers(s, SkipWhitespace(s, i + 1), <<>>, "first")
    ELSE IF s[i] = DEEP_OPEN THEN RecursionError
    ELSE JSONDecodeError

\* the end of the document: whitespace only may follow the value
EndOfDocument(s, r) ==
    IF r.status = "ok" /\ SkipWhitespace(s, r.next) <= Len(s) THEN JSONDecodeError ELSE r

\* json.loads(s)
json_loads(s) == EndOfDocument(s, ParseValue(s, SkipWhitespace(s, 1)))

\* the piece at the index i, or the empty string past the ends of the text
At(s, i) == IF i \in 1..Len(s) THEN s[i] ELSE ""

StartsWithBrace(piece) == piece \in {OPEN, DEEP_OPEN}
EndsWithBrace(piece) == piece \in {CLOSE, DEEP_CLOSE}

\* a match of a pattern: the indices of the first and last piece of what it
\* hands to the decoder; first is 0 when the pattern matches nowhere
Match(first, last) == [first |-> first, last |-> last]
NoMatch == Match(0, 0)
Group(s, m) == SubSeq(s, m.first, m.last)

\* where the group starts for an opening fence at i: after the optional tag
\* and the whitespace
GroupStart(s, i) == SkipWhitespace(s, IF At(s, i + 1) = TAG THEN i + 2 ELSE i + 1)

\* the piece e ends with a brace that whitespace and a fence follow
ClosesGroup(s, e) == EndsWithBrace(At(s, e)) /\ At(s, SkipWhitespace(s, e + 1)) = FENCE

\* the lazy group: the first index from e on that closes the group, or 0
RECURSIVE GroupEnd(_, _)
GroupEnd(s, e) ==
    IF e > Len(s) THEN 0
    ELSE IF ClosesGroup(s, e) THEN e
    ELSE GroupEnd(s, e + 1)

\* the fenced pattern tried at the index i
FencedAt(s, i) ==
    IF /\ At(s, i) = FENCE
       /\ StartsWithBrace(At(s, GroupStart(s, i)))
       /\ GroupEnd(s, GroupStart(s, i) + 1) # 0
    THEN Match(GroupStart(s, i), GroupEnd(s, GroupStart(s, i) + 1))
    ELSE NoMatch

RECURSIVE SearchFencedFrom(_, _, _)
\* re.search of the fenced pattern: the leftmost index at which it matches
SearchFencedFrom(s, i, m) ==
    IF m.first # 0 THEN m
    ELSE IF i >= Len(s) THEN NoMatch
    ELSE SearchFencedFrom(s, i + 1, FencedAt(s, i + 1))

SearchFenced(s) == SearchFencedFrom(s, 0, NoMatch)

\* the first index from i on of a piece that starts with a brace, or 0
RECURSIVE FirstBrace(_, _)
FirstBrace(s, i) ==
    IF i > Len(s) THEN 0
    ELSE IF StartsWithBrace(s[i]) THEN i
    ELSE FirstBrace(s, i + 1)

\* the last index up to i of a piece that ends with a brace, or 0
RECURSIVE LastBrace(_, _)
LastBrace(s, i) ==
    IF i < 1 THEN 0
    ELSE IF EndsWithBrace(s[i]) THEN i
    ELSE LastBrace(s, i - 1)

\* a lazy brace pattern: from the first opening brace to the first closing
\* brace after it
SearchBraces_Lazy(s) ==
    IF \E e \in 1..Len(s) : EndsWithBrace(s[e]) /\ 0 < FirstBrace(s, 1) /\ FirstBrace(s, 1) < e
    THEN Match(FirstBrace(s, 1),
               CHOOSE e \in 1..Len(s) :
                   /\ EndsWithBrace(s[e])
                   /\ FirstBrace(s, 1) < e
                   /\ \A d \in (FirstBrace(s, 1) + 1)..(e - 1) : ~EndsWithBrace(s[d]))
    ELSE NoMatch

\* re.search of the brace pattern over the whole text: the greedy group from
\* the first opening brace to the last closing brace
SearchBraces(s) ==
    IF FirstBrace(s, 1) = 0 \/ LastBrace(s, Len(s)) < FirstBrace(s, 1)
    THEN NoMatch
    ELSE Match(FirstBrace(s, 1), LastBrace(s, Len(s)))

\* outcomes of extract_json_from_response: the value an attempt decoded, the
\* record of raw_text and parsed false, or an exception leaving the function
Parsed(value, attempt) ==
    [kind |-> "parsed", attempt |-> attempt, value |-> value, raw_text |-> <<>>]
Fallback(raw) ==
    [kind |-> "fallback", attempt |-> 0, value |-> JsonNumber(0), raw_text |-> raw]
ExtractRaised ==
    [kind |-> "raise", attempt |-> 0, value |-> JsonNumber(0), raw_text |-> <<>>]

\* try: return json.loads(...) except json.JSONDecodeError: pass
Tried(r, attempt, otherwise) ==
    IF r.status = "ok" THEN Parsed(r.value, attempt)
    ELSE IF r.status = "JSONDecodeError" THEN otherwise
    ELSE ExtractRaised

SecondAttempt(s, m) ==
    IF m.first = 0 THEN Fallback(s)
    ELSE Tried(json_loads(Group(s, m)), 2, Fallback(s))

\* the fenced attempt left out
FirstAttempt_BracesOnly(s, m) == SecondAttempt(s, SearchBraces(s))

FirstAttempt(s, m) ==
    IF m.first = 0 THEN SecondAttempt(s, SearchBraces(s))
    ELSE Tried(json_loads(Group(s, m)), 1, SecondAttempt(s, SearchBraces(s)))

extract_json_from_response(s) == FirstAttempt(s, SearchFenced(s))

----------------------------------------------------------------------------
(* Calls of extract_json_from_response *)

Pieces ==
    {FENCE, TAG, NEWLINE, OPEN, CLOSE, KEY_K, KEY_J, ONE, COMMA, PROSE, DEEP_OPEN,
     DEEP_CLOSE}

\* the objects a response carries, bare
EmptyObject == <<OPEN, CLOSE>>
ObjectK == <<OPEN, KEY_K, ONE, CLOSE>>
ObjectJ == <<OPEN, KEY_J, ONE, CLOSE>>
NestedObject == <<OPEN, KEY_K, OPEN, CLOSE, CLOSE>>
NotJson == <<OPEN, ONE, CLOSE>>
DeepObject == <<DEEP_OPEN, ONE, DEEP_CLOSE>>

\* and in a fenced block, tagged or not
Fenced(contents) == <<FENCE, NEWLINE>> \o contents \o <<NEWLINE, FENCE>>
FencedJson(contents) == <<FENCE, TAG, NEWLINE>> \o contents \o <<NEWLINE, FENCE>>

\* a response is made of at most MaxSegments segments: single pieces, bare
\* objects and fenced blocks
MaxSegments == 3

Segments ==
    {<<p>> : p \in Pieces}
        \cup {EmptyObject, ObjectK, ObjectJ, NestedObject, NotJson, DeepObject}
        \cup {FencedJson(ObjectK), Fenced(ObjectJ), Fenced(NotJson)}

RECURSIVE Joined(_, _)
\* the segments f[i], f[i + 1], ... one after the other
Joined(f, i) == IF i > Len(f) THEN <<>> ELSE f[i] \o Joined(f, i + 1)

InitExtract ==
    /\ pc = "call"
    /\ calls = Unused
    /\ cache = Unused
    /\ req = Unused
    /\ resp = Unused
    /\ trace = Unused
    /\ \E n \in 0..MaxSegments : \E f \in [1..n -> Segments] : text = Joined(f, 1)
    /\ json_ret = Unused
    /\ price_str = Unused
    /\ parse_ret = Unused
    /\ analysis = Unused
    /\ range_ret = Unused
    /\ pix = Unused
    /\ y_ret = Unused
    /\ image = Unused
    /\ ann_ret = Unused

ExtractJson ==
    /\ pc = "call"
    /\ json_ret' = extract_json_from_response(text)
    /\ pc' = "return"
    /\ UNCHANGED <<price_str, parse_ret, analysis, range_ret, pix, y_ret, image, ann_ret, text, calls, cache, req, resp, trace>>

SpecExtract == InitExtract /\ [][ExtractJson]_vars

----------------------------------------------------------------------------
(* Properties of extract_json_from_response *)

\* the indices of the fences of the text
Fences(s) == {i \in 1..Len(s) : s[i] = FENCE}

\* a fenced block: a fence at i and the next fence at j
IsBlock(s, i, j) ==
    /\ i \in Fences(s)
    /\ j \in Fences(s)
    /\ i < j
    /\ \A m \in Fences(s) : ~(i < m /\ m < j)

\* the contents of the block, after its optional tag
Contents(s, i, j) == SubSeq(s, IF At(s, i + 1) = TAG THEN i + 2 ELSE i + 1, j - 1)

\* the objects that the fenced blocks of the text hold
BlockObjects(s) ==
    {json_loads(Contents(s, b[1], b[2])).value :
        b \in {c \in Fences(s) \X Fences(s) :
                  /\ IsBlock(s, c[1], c[2])
                  /\ json_loads(Contents(s, c[1], c[2])).status = "ok"
                  /\ json_loads(Contents(s, c[1], c[2])).value.type = "object"}}

\* C13 as stated: when the text contains a fenced block, optionally tagged
\* json, whose contents are a parsable JSON object, the result is that object,
\* whatever else the text holds.
C13_AnyFencedObject ==
    (pc = "return" /\ BlockObjects(text) # {})
        => (json_ret.kind = "parsed" /\ json_ret.value \in BlockObjects(text))

\* the fenced pattern matches at the fence i
FenceOpens(s, i) ==
    /\ At(s, i) = FENCE
    /\ StartsWithBrace(At(s, GroupStart(s, i)))
    /\ \E e \in (GroupStart(s, i) + 1)..Len(s) : ClosesGroup(s, e)

\* the leftmost fence at which the fenced pattern matches
IsLeftmostMatch(s, i) == FenceOpens(s, i) /\ \A j \in 1..(i - 1) : ~FenceOpens(s, j)

\* the group of the match at the fence i: from the brace after the fence to
\* the first closing brace that whitespace and a fence follow
LazyGroup(s, i) ==
    SubSeq(s, GroupStart(s, i),
           CHOOSE e \in (GroupStart(s, i) + 1)..Len(s) :
               /\ ClosesGroup(s, e)
               /\ \A d \in (GroupStart(s, i) + 1)..(e - 1) : ~ClosesGroup(s, d))

\* C13: the fenced attempt comes first.  When the group of the leftmost match
\* of the fenced pattern is a parsable JSON object, the result is that object,
\* produced by the first attempt, whatever bare objects the text holds before
\* or after the fence.
C13_FencedFirst ==
    pc = "return" =>
        \A i \in 1..Len(text) :
            (IsLeftmostMatch(text, i) /\ json_loads(LazyGroup(text, i)).status = "ok")
                => /\ json_ret = Parsed(json_loads(LazyGroup(text, i)).value, 1)
                   /\ json_ret.value.type = "object"

\* a fenced object with another bare object before it
C13_Witness ==
    /\ pc = "return"
    /\ text = ObjectJ \o <<NEWLINE>> \o FencedJson(ObjectK)
    /\ json_ret = Parsed(JsonObject(Put(<<>>, "k", JsonNumber(1))), 1)

\* the fenced attempt has found nothing that parses
FencedFails(s) ==
    \A i \in 1..Len(s) :
        IsLeftmostMatch(s, i) => json_loads(LazyGroup(s, i)).status = "JSONDecodeError"

\* the first opening brace and the last closing brace of the text
OpeningBraces(s) == {i \in 1..Len(s) : StartsWithBrace(s[i])}
ClosingBraces(s) == {i \in 1..Len(s) : EndsWithBrace(s[i])}
FirstOpening(s) == CHOOSE i \in OpeningBraces(s) : \A j \in OpeningBraces(s) : i <= j
LastClosing(s) == CHOOSE i \in ClosingBraces(s) : \A j \in ClosingBraces(s) : j <= i

\* the text has a substring from its first opening to its last closing brace
HasBraceSpan(s) ==
    /\ OpeningBraces(s) # {}
    /\ ClosingBraces(s) # {}
    /\ FirstOpening(s) < LastClosing(s)

BraceSpan(s) == SubSeq(s, FirstOpening(s), LastClosing(s))

\* C14: the second attempt is made only when the fenced attempt found no
\* object or its contents failed to parse; it parses the substring from the
\* first opening brace of the whole text to its last closing brace, and when
\* that substring is valid JSON the result is the object it holds.
C14_SecondAttempt ==
    pc = "return" =>
        /\ json_ret.attempt = 2
            => /\ FencedFails(text)
               /\ HasBraceSpan(text)
               /\ json_ret = Parsed(json_loads(BraceSpan(text)).value, 2)
               /\ json_loads(BraceSpan(text)).status = "ok"
        /\ (/\ FencedFails(text)
            /\ HasBraceSpan(text)
            /\ json_loads(BraceSpan(text)).status = "ok")
            => json_ret = Parsed(json_loads(BraceSpan(text)).value, 2)

\* prose around a nested object and no fence
C14_Witness ==
    /\ pc = "return"
    /\ text = <<PROSE>> \o NestedObject \o <<PROSE>>
    /\ json_ret = Parsed(JsonObject(Put(<<>>, "k", JsonObject(<<>>))), 2)

\* the result is a mapping
IsMapping(r) == r.kind = "fallback" \/ (r.kind = "parsed" /\ r.value.type = "object")

\* neither attempt yields valid JSON
NothingParses(s) ==
    /\ FencedFails(s)
    /\ HasBraceSpan(s) => json_loads(BraceSpan(s)).status = "JSONDecodeError"

\* C15: extract_json_from_response raises for no text; when neither attempt
\* yields valid JSON the result is the record of raw_text, the text unchanged,
\* and parsed false; every result is a mapping.
C15_NeverRaises ==
    pc = "return" =>
        /\ json_ret.kind # "raise"
        /\ IsMapping(json_ret)
        /\ NothingParses(text) => json_ret = Fallback(text)

----------------------------------------------------------------------------
(* Properties of annotate_chart: frame and rendering *)

\* the record has none of entry, stop_loss, take_profits, support_levels,
\* resistance_levels and current_price
HasNoField(a) ==
    /\ a.entry = AbsentField
    /\ a.stop_loss = AbsentField
    /\ a.take_profits = <<>>
    /\ a.support_levels = <<>>
    /\ a.resistance_levels = <<>>
    /\ a.current_price = <<>>

\* the raw-text scrape finds no number
ScrapeFindsNothing(a) == a.raw_text.keyword = <<>> /\ a.raw_text.generic = <<>>

\* C16: for a record with none of the six fields, when parsed is not false,
\* or raw_text is absent, or the scrape of raw_text finds no number,
\* annotate_chart returns an image pixel-identical to its input: the same
\* size, nothing drawn.
C16_NoDataGivesCopy ==
    (/\ pc = "return"
     /\ analysis.is_dict
     /\ HasNoField(analysis)
     /\ \/ analysis.parsed # "false"
        \/ ~analysis.raw_text.present
        \/ ScrapeFindsNothing(analysis))
        => /\ ann_ret.kind = "image"
           /\ ann_ret.size = image
           /\ ann_ret.elements = <<>>

\* a raw text holding numbers, in a record whose parsed is true
C16_Witness ==
    /\ pc = "return"
    /\ HasNoField(analysis)
    /\ analysis.parsed = "true"
    /\ analysis.raw_text.present
    /\ analysis.raw_text.keyword # <<>>
    /\ ann_ret = Copy(image)

ParsableIn(elem, levels) ==
    {<<elem, i>> : i \in {j \in 1..Len(levels) :
                              /\ levels[j].kind = "dict"
                              /\ parse_price(levels[j].price).kind = "num"}}

ParsableFields(a) ==
    ParsableIn("entry", <<a.entry>>)
        \cup ParsableIn("stop_loss", <<a.stop_loss>>)
        \cup ParsableIn("take_profit", a.take_profits)
        \cup ParsableIn("support", SubSeq(a.support_levels, 1, IntMin(5, Len(a.support_levels))))
        \cup ParsableIn("resistance",
                        SubSeq(a.resistance_levels, 1, IntMin(5, Len(a.resistance_levels))))

\* the elements drawn in the image out, by element and position
DrawnFields(out) == {<<out.elements[i].elem, out.elements[i].idx>> : i \in DOMAIN out.elements}

\* C18: the render steps are independent.  For every record, every field
\* whose price parses is rendered in the returned image, whatever the other
\* fields hold; a field that is absent or does not parse is skipped.
C18_StepsIndependent ==
    (pc = "return" /\ analysis.is_dict /\ ~HasNoField(analysis))
        => DrawnFields(ann_ret) = ParsableFields(analysis)

\* the tokens the recovery works on
ScrapedTokens(a) ==
    IF a.raw_text.keyword # <<>> THEN a.raw_text.keyword ELSE a.raw_text.generic

\* the token at the position i as the price of a field, when there is one
TokenField(tokens, i) == IF i <= Len(tokens) THEN Mapping(tokens[i]) ELSE Mapping(<<>>)

\* the record the claim describes: tokens mapped by position
PositionalRecord(tokens) ==
    [EmptyAnalysis EXCEPT
        !.entry = TokenField(tokens, 1),
        !.stop_loss = TokenField(tokens, 2),
        !.take_profits = IF Len(tokens) >= 4
                         THEN <<Mapping(tokens[3]), Mapping(tokens[4])>>
                         ELSE IF Len(tokens) = 3 THEN <<Mapping(tokens[3])>>
                         ELSE <<>>,
        !.parsed = "true"]

\* C19: in degraded recovery the tokens are mapped by position: the first is
\* the entry price, the second the stop-loss price, the third and fourth the
\* take-profit prices, and the tokens after the fourth are ignored.  The
\* tokens are those of the keyword pattern, and those of the generic pattern
\* only when the keyword pattern finds none.  The call then goes on with this
\* record in place of the original.
C19_PositionalRecovery ==
    (/\ pc = "return"
     /\ analysis.is_dict
     /\ HasNoField(analysis)
     /\ analysis.parsed = "false"
     /\ analysis.raw_text.present
     /\ ~ScrapeFindsNothing(analysis))
        => ann_ret = AnnotateRecord(image, PositionalRecord(ScrapedTokens(analysis)))

\* five tokens found by the keyword pattern, another by the generic one
C19_Witness ==
    /\ pc = "return"
    /\ HasNoField(analysis)
    /\ analysis.parsed = "false"
    /\ analysis.raw_text.keyword = <<T_1K, T_100, T_0, T_100, T_1K>>
    /\ analysis.raw_text.generic = <<T_0>>
    /\ ann_ret.kind = "image"
    /\ [i \in DOMAIN ann_ret.elements |-> ann_ret.elements[i].label] = <<T_1K, T_100, T_100>>

\* the positions in the drawing order of the elements of one kind
DrawnAt(out, elem) == {i \in DOMAIN out.elements : out.elements[i].elem = elem}

\* the elements of one kind are at most five, each is an entry among the
\* first five of the list, and they are drawn in the order of the list
FirstFiveInOrder(out, elem, levels) ==
    /\ Cardinality(DrawnAt(out, elem)) <= 5
    /\ \A i \in DrawnAt(out, elem) :
          /\ out.elements[i].idx \in 1..IntMin(5, Len(levels))
          /\ out.elements[i].label = levels[out.elements[i].idx].price
    /\ \A i, j \in DrawnAt(out, elem) : i < j => out.elements[i].idx < out.elements[j].idx

\* C20: annotate_chart draws at most five support lines and at most five
\* resistance lines, taken from the first five entries of support_levels and
\* of resistance_levels in their order; entries from the sixth on are never
\* drawn.
C20_AtMostFiveLevels ==
    (pc = "return" /\ analysis.is_dict /\ ~HasNoField(analysis) /\ ann_ret.kind = "image")
        => /\ FirstFiveInOrder(ann_ret, "support", analysis.support_levels)
           /\ FirstFiveInOrder(ann_ret, "resistance", analysis.resistance_levels)

\* six support and seven resistance levels given, five of each drawn
C20_Witness ==
    /\ pc = "return"
    /\ Len(analysis.support_levels) = 6
    /\ Len(analysis.resistance_levels) = 7
    /\ ann_ret.kind = "image"
    /\ Cardinality(DrawnAt(ann_ret, "support")) = 5
    /\ Cardinality(DrawnAt(ann_ret, "resistance")) = 5

\* the field at the position idx of the elements elem of the record
FieldOf(a, elem, idx) ==
    CASE elem = "entry" -> a.entry
      [] elem = "stop_loss" -> a.stop_loss
      [] elem = "take_profit" -> a.take_profits[idx]
      [] elem = "support" -> a.support_levels[idx]
      [] elem = "resistance" -> a.resistance_levels[idx]

\* C23: annotate_chart renders entry, stop_loss, each take profit and each of
\* the first five support and resistance levels, with its label, whenever
\* the price of the field parses to a number, zero included.
C23_ParsedPriceRendered ==
    (pc = "return" /\ analysis.is_dict /\ AllMappings(analysis))
        => \A f \in ParsableFields(analysis) :
              \E i \in DOMAIN ann_ret.elements :
                  /\ ann_ret.elements[i].elem = f[1]
                  /\ ann_ret.elements[i].idx = f[2]
                  /\ ann_ret.elements[i].label = FieldOf(analysis, f[1], f[2]).price
                  /\ ann_ret.elements[i].price = DecOf(parse_price(ann_ret.elements[i].label))

\* all raw prices available in the record, current_price, entry, stop_loss,
\* take profits, support and resistance levels: those that parse to a number
\* other than zero
AllRawPrices(a) == SelectSeq(ParsedOf(PriceTokens(a)), LAMBDA d : d.m # 0)

RECURSIVE Total(_)
Total(ps) == IF ps = <<>> THEN Dec(0) ELSE DecAdd(Head(ps), Total(Tail(ps)))

\* the window of 20 percent around the mean of the prices ps
MeanWindow(ps) ==
    Range(DecMul(DecDivInt(Total(ps), Len(ps)), [m |-> 8, e |-> -1]),
          DecMul(DecDivInt(Total(ps), Len(ps)), [m |-> 12, e |-> -1]))

\* the range the call has worked with
UsedRange(out) == Range(out.min_price, out.max_price)

\* no price of the record is negative
NoNegativePrice(a) ==
    \A i \in DOMAIN ParsedOf(PriceTokens(a)) : ParsedOf(PriceTokens(a))[i].m >= 0

\* C24: range resolution.  When get_price_range raises the range is (0, 100);
\* when it returns min >= max the range is the window of 20 percent around
\* the mean of all raw prices of the record that parse, and (0, 100) only
\* when there is none; otherwise it is the range get_price_range returns.
\* Stated for the records without a negative price.
C24_RangeResolution ==
    (/\ pc = "return"
     /\ analysis.is_dict
     /\ HasData(analysis)
     /\ NoNegativePrice(analysis)
     /\ ann_ret.kind = "image")
        => UsedRange(ann_ret) =
              IF get_price_range(analysis).kind = "raise" THEN Range(Dec(0), Dec(100))
              ELSE IF DecLeq(get_price_range(analysis).max, get_price_range(analysis).min)
              THEN IF AllRawPrices(analysis) # <<>> THEN MeanWindow(AllRawPrices(analysis))
                   ELSE Range(Dec(0), Dec(100))
              ELSE get_price_range(analysis)

\* C30: when the range is inferred from the prices of the record and at
\* least two prices parse, none of them negative, every price that annotate_chart renders lies in
\* the range the mapper is given, so that no element is clamped to an edge.
C30_RenderedInsideRange ==
    (/\ pc = "return"
     /\ analysis.is_dict
     /\ AllMappings(analysis)
     /\ ann_ret.kind = "image"
     /\ ~BoundsParseOrdered(analysis)
     /\ NoNegativePrice(analysis)
     /\ Len(ParsedOf(PriceTokens(analysis))) >= 2)
        => \A i \in DOMAIN ann_ret.elements :
              /\ DecLeq(ann_ret.min_price, ann_ret.elements[i].price)
              /\ DecLeq(ann_ret.elements[i].price, ann_ret.max_price)

----------------------------------------------------------------------------
(* The draw operations of annotate_chart *)

\* the shapes of an element, in the order of their draw calls: the arrow of
\* draw_arrow for the entry, the solid line and its dashes for stop_loss and
\* the take profits, the dashes for the levels
Shapes(elem) ==
    CASE elem = "entry" -> <<"polygon">>
      [] elem \in {"stop_loss", "take_profit"} -> <<"line", "dashes">>
      [] elem \in {"support", "resistance"} -> <<"dashes">>

\* the text of a label: its word, for a take profit the number idx + 1 of
\* enumerate, and the price token as the record holds it
LabelText(e) ==
    [word |-> CASE e.elem = "entry" -> "ENTRY"
                [] e.elem = "stop_loss" -> "STOP LOSS"
                [] e.elem = "take_profit" -> "TP"
                [] e.elem = "support" -> "Support"
                [] e.elem = "resistance" -> "Resistance",
     number |-> IF e.elem = "take_profit" THEN e.idx ELSE 0,
     price |-> e.label]

DrawOp(e, op) == [elem |-> e.elem, idx |-> e.idx, op |-> op, text |-> LabelText(e)]

\* the label drawn before its background
ElementOps_TextFirst(e) ==
    [i \in DOMAIN Shapes(e.elem) |-> DrawOp(e, Shapes(e.elem)[i])]
        \o <<DrawOp(e, "text"), DrawOp(e, "rectangle")>>

\* lines 344-358, 370-393, 407-431, 446-466, 481-501: the draw calls of one
\* element
ElementOps(e) ==
    [i \in DOMAIN Shapes(e.elem) |-> DrawOp(e, Shapes(e.elem)[i])]
        \o <<DrawOp(e, "rectangle"), DrawOp(e, "text")>>

RECURSIVE OpsFrom(_, _)
OpsFrom(elements, i) ==
    IF i > Len(elements) THEN <<>> ELSE ElementOps(elements[i]) \o OpsFrom(elements, i + 1)

\* the draw calls of the call that gave out, in order
DrawOps(out) == OpsFrom(out.elements, 1)

\* the draw calls i and j are of the same element
SameElement(ops, i, j) == ops[i].elem = ops[j].elem /\ ops[i].idx = ops[j].idx

\* C25: in the draw operations of a call, the background rectangle of every
\* label is drawn before the text of the label and no later operation of the
\* same element follows the text; the label of a take profit carries the
\* position of the level in take_profits, counted from 1, also when an
\* earlier level was skipped.
C25_BackgroundBeforeText ==
    (pc = "return" /\ ann_ret.kind = "image") =>
        /\ \A i \in DOMAIN DrawOps(ann_ret) :
              DrawOps(ann_ret)[i].op = "text"
                  => /\ \E j \in 1..(i - 1) :
                           /\ SameElement(DrawOps(ann_ret), i, j)
                           /\ DrawOps(ann_ret)[j].op = "rectangle"
                     /\ \A j \in (i + 1)..Len(DrawOps(ann_ret)) :
                           ~SameElement(DrawOps(ann_ret), i, j)
        /\ \A i \in DOMAIN ann_ret.elements :
              \E j \in DOMAIN DrawOps(ann_ret) :
                  /\ DrawOps(ann_ret)[j].op = "text"
                  /\ DrawOps(ann_ret)[j].elem = ann_ret.elements[i].elem
                  /\ DrawOps(ann_ret)[j].idx = ann_ret.elements[i].idx
        /\ HasData(analysis) =>
              \A i \in DOMAIN DrawOps(ann_ret) :
                  (DrawOps(ann_ret)[i].op = "text" /\ DrawOps(ann_ret)[i].elem = "take_profit")
                      => /\ DrawOps(ann_ret)[i].text.number \in DOMAIN analysis.take_profits
                         /\ analysis.take_profits[DrawOps(ann_ret)[i].text.number].price
                               = DrawOps(ann_ret)[i].text.price

\* the first take profit does not parse, the second is drawn as TP2
C25_Witness ==
    /\ pc = "return"
    /\ ann_ret.kind = "image"
    /\ Len(analysis.take_profits) = 2
    /\ analysis.take_profits[1].price = T_abc
    /\ analysis.take_profits[2].price = T_100
    /\ \E i \in DOMAIN DrawOps(ann_ret) :
          /\ DrawOps(ann_ret)[i].op = "text"
          /\ DrawOps(ann_ret)[i].text = [word |-> "TP", number |-> 2, price |-> T_100]
          /\ DrawOps(ann_ret)[i - 1].op = "rectangle"

----------------------------------------------------------------------------
(* Concurrent calls of annotate_chart in the worker pool *)

\* the calls submitted to the executor
Calls == {1, 2}

NoRange == [kind |-> "none"]
NoReturn == [kind |-> "none"]

\* the frame of one call: its two arguments and its local names, the record
\* it works on, the price range and the value returned
Frame(img, rec) ==
    [pc |-> "recover", img |-> img, rec |-> rec, a |-> rec, range |-> NoRange,
     ret |-> NoReturn]

\* a working record kept in one place for all calls
FrameRead_Shared(cs, i) == [cs[i] EXCEPT !.a = cs[1].a]

\* what a step of call i reads: its own arguments and local names.  The
\* module has no global that a call assigns, and the draw context belongs
\* to the copy the call made.
FrameRead(cs, i) == cs[i]

\* lines 223-266: the checks of the record and the recovery from raw_text
Recover(i) ==
    /\ pc = "calls"
    /\ calls[i].pc = "recover"
    /\ calls' = [calls EXCEPT ![i] =
          IF ~FrameRead(calls, i).rec.is_dict
          THEN [@ EXCEPT !.pc = "return", !.ret = Copy(FrameRead(calls, i).img)]
          ELSE IF ~HasData(EffectiveAnalysis(FrameRead(calls, i).rec))
          THEN [@ EXCEPT !.pc = "return", !.ret = Copy(FrameRead(calls, i).img),
                         !.a = EffectiveAnalysis(FrameRead(calls, i).rec)]
          ELSE [@ EXCEPT !.pc = "range",
                         !.a = EffectiveAnalysis(FrameRead(calls, i).rec)]]
    /\ UNCHANGED <<pc, price_str, parse_ret, analysis, range_ret, pix, y_ret, image,
                   ann_ret, text, json_ret, cache, req, resp, trace>>

\* lines 271-306: the copy, the overlay and the price range
ResolveRange(i) ==
    /\ pc = "calls"
    /\ calls[i].pc = "range"
    /\ calls' = [calls EXCEPT ![i] =
          [@ EXCEPT !.pc = "render", !.range = ResolvedRange(FrameRead(calls, i).a)]]
    /\ UNCHANGED <<pc, price_str, parse_ret, analysis, range_ret, pix, y_ret, image,
                   ann_ret, text, json_ret, cache, req, resp, trace>>

\* lines 308-504: the drawing and the return
Render(i) ==
    /\ pc = "calls"
    /\ calls[i].pc = "render"
    /\ calls' = [calls EXCEPT ![i] =
          [@ EXCEPT !.pc = "return",
                    !.ret = IF RenderRaises(FrameRead(calls, i).a)
                            THEN Propagated(FrameRead(calls, i).img)
                            ELSE Annotated(FrameRead(calls, i).img,
                                           FrameRead(calls, i).a,
                                           FrameRead(calls, i).range)]]
    /\ UNCHANGED <<pc, price_str, parse_ret, analysis, range_ret, pix, y_ret, image,
                   ann_ret, text, json_ret, cache, req, resp, trace>>

\* records of the concurrent calls
ConcurrentRecords ==
    RawRecords \cup ExampleRecords \cup {NotADict}
    \cup {Record(<<<<>>, <<>>>>, [s \in {"entry"} |-> Mapping(t)]) : t \in AnnotateTokens}
    \cup {Record(<<<<>>, <<>>>>, [s \in {"stop_loss"} |-> ScalarField])}

InitConcurrent ==
    /\ pc = "calls"
    /\ \E img1 \in Images, img2 \in Images :
          \E rec1 \in ConcurrentRecords, rec2 \in ConcurrentRecords :
              /\ img1 # img2
              /\ rec1 # rec2
              /\ calls = <<Frame(img1, rec1), Frame(img2, rec2)>>
    /\ cache = Unused
    /\ req = Unused
    /\ resp = Unused
    /\ trace = Unused
    /\ text = Unused
    /\ json_ret = Unused
    /\ analysis = Unused
    /\ image = Unused
    /\ ann_ret = Unused
    /\ range_ret = Unused
    /\ price_str = Unused
    /\ parse_ret = Unused
    /\ pix = Unused
    /\ y_ret = Unused

NextConcurrent == \E i \in Calls : Recover(i) \/ ResolveRange(i) \/ Render(i)

SpecConcurrent == InitConcurrent /\ [][NextConcurrent]_vars

----------------------------------------------------------------------------
(* The /analyze handler and its cache *)

\* an optional string parameter: absent, or the string given
NoDirection == [given |-> FALSE, s |-> <<>>]
Direction(s) == [given |-> TRUE, s |-> s]

\* an uploaded file: its bytes by name, len(image_bytes) against the limits
\* and what Image.open makes of the bytes
EmptyUpload == [content |-> "empty", len |-> "zero", opens |-> FALSE,
                img |-> [width |-> 0, height |-> 0]]
TooBig == [content |-> "big", len |-> "over", opens |-> TRUE,
           img |-> [width |-> 1000, height |-> 1000]]
NotAnImage == [content |-> "junk", len |-> "ok", opens |-> FALSE,
               img |-> [width |-> 0, height |-> 0]]
ChartA == [content |-> "A", len |-> "ok", opens |-> TRUE,
           img |-> [width |-> 200, height |-> 100]]
ChartB == [content |-> "B", len |-> "ok", opens |-> TRUE,
           img |-> [width |-> 1000, height |-> 1000]]

Request(file, timeframe, asset_type, trade_direction) ==
    [file |-> file, timeframe |-> timeframe, asset_type |-> asset_type,
     trade_direction |-> trade_direction]

\* the requests sent: strings are sequences of chunks, "_" a chunk of its own
Requests ==
    { Request(ChartA, <<"1h">>, <<"btc">>, NoDirection),
      Request(ChartA, <<"1h">>, <<"btc">>, Direction(<<>>)),
      Request(ChartA, <<"1h">>, <<"btc">>, Direction(<<"long">>)),
      Request(ChartA, <<"1h">>, <<"btc", "_", "long">>, NoDirection),
      Request(ChartB, <<"1h">>, <<"btc">>, NoDirection),
      Request(EmptyUpload, <<"1h">>, <<"btc">>, NoDirection),
      Request(TooBig, <<"1h">>, <<"btc">>, NoDirection),
      Request(NotAnImage, <<"1h">>, <<"btc">>, NoDirection) }

\* sha256 of the bytes: one digest for each content
get_image_hash(file) == file.content

\* "if trade_direction:" of an optional string
DirectionTruthy(d) == d.given /\ d.s # <<>>

get_cache_path(image_hash, timeframe, asset_type, trade_direction) ==
    <<image_hash, "_">> \o timeframe \o <<"_">> \o asset_type
      \o (IF DirectionTruthy(trade_direction) THEN <<"_">> \o trade_direction.s ELSE <<>>)
      \o <<".json">>

PathOf(r) == get_cache_path(get_image_hash(r.file), r.timeframe, r.asset_type,
                            r.trade_direction)

Paths == {PathOf(r) : r \in Requests}

\* a path of the cache directory: no file, a file json.load fails on, or a
\* file holding data
NoFile == [kind |-> "none"]
Unreadable == [kind |-> "unreadable"]
File(data) == [kind |-> "file", data |-> data]

Null == [kind |-> "null"]

\* the value load_from_cache returns: the data of the file, None when the
\* file does not exist or cannot be loaded
load_from_cache(files, path) ==
    IF files[path].kind = "file" THEN files[path].data ELSE Null

\* "if cached_result:"; every stored response is a dictionary with members
CacheHit(cached) == cached # Null

\* what the response texts of the model spell: the trading fields of the
\* JSON object, whether a member is the literal NaN, and what the patterns
\* of the recovery find in the text
Spelled(fields, nan, raw) == [fields |-> fields, nan |-> nan, raw |-> raw]

RaisingSetup == [EmptyAnalysis EXCEPT !.stop_loss = ScalarField]

ProsePrices == [present |-> TRUE, keyword |-> <<T_100, T_0, T_1K>>, generic |-> <<>>]

\* outcomes of the model call and of reading the text of its response
ModelOutcomes ==
    { [kind |-> "exception", text |-> <<>>, spelled |-> Spelled(EmptyAnalysis, FALSE, NoRawText)],
      [kind |-> "empty", text |-> <<>>, spelled |-> Spelled(EmptyAnalysis, FALSE, NoRawText)],
      [kind |-> "blocked", text |-> <<>>, spelled |-> Spelled(EmptyAnalysis, FALSE, NoRawText)],
      [kind |-> "text", text |-> NotJson, spelled |-> Spelled(EmptyAnalysis, FALSE, ProsePrices)],
      [kind |-> "text", text |-> DeepObject, spelled |-> Spelled(TradeSetup, FALSE, NoRawText)],
      [kind |-> "text", text |-> FencedJson(ObjectK),
       spelled |-> Spelled(TradeSetup, FALSE, NoRawText)],
      [kind |-> "text", text |-> ObjectK, spelled |-> Spelled(RaisingSetup, FALSE, NoRawText)],
      [kind |-> "text", text |-> ObjectK, spelled |-> Spelled(TradeSetup, TRUE, NoRawText)] }

\* json_data: what extract_json_from_response returned, as the record the
\* annotator reads
JsonData(extracted, spelled) ==
    [extracted |-> extracted,
     nan |-> extracted.kind = "parsed" /\ spelled.nan,
     record |-> IF extracted.kind = "fallback"
                THEN [EmptyAnalysis EXCEPT !.parsed = "false", !.raw_text = spelled.raw]
                ELSE spelled.fields]

\* lines 381-388
has_price_data(a) ==
    \/ FieldTruthy(a.entry)
    \/ FieldTruthy(a.stop_loss)
    \/ a.take_profits # <<>>
    \/ a.support_levels # <<>>
    \/ a.resistance_levels # <<>>
    \/ TokenTruthy(a.current_price)

\* lines 379 and 390: the record is handed to annotate_chart
AnnotatorCalled(a) == a.is_dict /\ (has_price_data(a) \/ a.parsed # "false")

\* lines 392-404 and 411-413 on the outcome of annotate_chart
Encoded(img, out) ==
    IF out.kind = "raise" THEN Null
    ELSE IF out.size = img THEN [kind |-> "png", of |-> out]
    ELSE Null

create_annotated_chart(img, a) ==
    IF AnnotatorCalled(a) THEN Encoded(img, annotate_chart(img, a)) ELSE Null

\* lines 439-450
response_data(json_data, analysis_text, file, annotated, r) ==
    [success |-> TRUE,
     analysis |-> json_data,
     raw_response |-> analysis_text,
     original_image |-> file.content,
     annotated_image |-> annotated,
     metadata |-> [timeframe |-> r.timeframe, asset_type |-> r.asset_type,
                   trade_direction |-> r.trade_direction]]

NoBody == [success |-> FALSE]

HTTPException(status_code) == [status |-> status_code, body |-> NoBody]

\* JSONResponse renders its content when it is built, with allow_nan off: a
\* NaN in the content raises ValueError, which the handlers of lines 467 and
\* 476 turn into status 500
JSONResponse(content) ==
    IF content.analysis.nan THEN HTTPException(500)
    ELSE [status |-> 200, body |-> content]

\* outcomes of the write of save_to_cache: the file is written, open fails,
\* or the write fails after open has truncated the file
DiskOutcomes == {"written", "denied", "partial"}

save_to_cache(files, path, result, disk) ==
    CASE disk = "written" -> [files EXCEPT ![path] = File(result)]
      [] disk = "denied" -> files
      [] disk = "partial" -> [files EXCEPT ![path] = Unreadable]

NoRequest == [file |-> EmptyUpload]
NoResponse == [status |-> 0, body |-> NoBody]

InitService ==
    /\ pc = "idle"
    /\ cache = [p \in Paths |-> NoFile]
    /\ req = NoRequest
    /\ resp = NoResponse
    /\ trace = <<>>
    /\ calls = Unused
    /\ text = Unused
    /\ json_ret = Unused
    /\ analysis = Unused
    /\ image = Unused
    /\ ann_ret = Unused
    /\ range_ret = Unused
    /\ price_str = Unused
    /\ parse_ret = Unused
    /\ pix = Unused
    /\ y_ret = Unused

\* the request ends with the response r
Ends(r) ==
    /\ resp' = r
    /\ pc' = "idle"
    /\ text' = Unused
    /\ json_ret' = Unused
    /\ analysis' = Unused
    /\ image' = Unused
    /\ ann_ret' = Unused

\* lines 166-178: the bytes are read and hashed and the cache is looked up
Lookup(r) ==
    /\ pc = "idle"
    /\ req' = r
    /\ trace' = <<"lookup">>
    /\ IF CacheHit(load_from_cache(cache, PathOf(r)))
       THEN Ends(JSONResponse(load_from_cache(cache, PathOf(r))))
       ELSE /\ pc' = "validate"
            /\ UNCHANGED <<resp, text, json_ret, analysis, image, ann_ret>>
    /\ UNCHANGED <<cache, calls, range_ret, price_str, parse_ret, pix, y_ret>>

\* lines 181-228: the checks of the upload and process_image
Validate ==
    /\ pc = "validate"
    /\ IF req.file.len = "zero" \/ req.file.len = "over" \/ ~req.file.opens
       THEN Ends(HTTPException(400))
       ELSE /\ image' = req.file.img
            /\ pc' = "model"
            /\ UNCHANGED <<resp, text, json_ret, analysis, ann_ret>>
    /\ UNCHANGED <<cache, req, trace, calls, range_ret, price_str, parse_ret, pix, y_ret>>

\* lines 237-363: the model is called and the text of its response read;
\* the request keeps what the text spells until the extraction
CallModel(o) ==
    /\ pc = "model"
    /\ trace' = Append(trace, "model")
    /\ req' = [file |-> req.file, timeframe |-> req.timeframe,
               asset_type |-> req.asset_type, trade_direction |-> req.trade_direction,
               spelled |-> o.spelled]
    /\ IF o.kind # "text"
       THEN Ends(HTTPException(500))
       ELSE /\ text' = o.text
            /\ pc' = "annotate"
            /\ UNCHANGED <<resp, json_ret, analysis, image, ann_ret>>
    /\ UNCHANGED <<cache, calls, range_ret, price_str, parse_ret, pix, y_ret>>

\* lines 368-422: extraction and create_annotated_chart in the executor.  An
\* exception of the extraction reaches the handler of line 467.
Annotate ==
    /\ pc = "annotate"
    /\ req' = Request(req.file, req.timeframe, req.asset_type, req.trade_direction)
    /\ IF extract_json_from_response(text).kind = "raise"
       THEN /\ trace' = Append(trace, "extract")
            /\ Ends(HTTPException(500))
       ELSE /\ json_ret' = JsonData(extract_json_from_response(text), req.spelled)
            /\ analysis' = json_ret'.record
            /\ ann_ret' = create_annotated_chart(image, analysis')
            /\ trace' = trace \o <<"extract">>
                        \o (IF AnnotatorCalled(analysis') THEN <<"annotate">> ELSE <<>>)
            /\ pc' = "respond"
            /\ UNCHANGED <<resp, text, image>>
    /\ UNCHANGED <<cache, calls, range_ret, price_str, parse_ret, pix, y_ret>>

\* lines 425-481: the response is assembled, saved to the cache and returned
Respond(disk) ==
    /\ pc = "respond"
    /\ cache' = save_to_cache(cache, PathOf(req),
                              response_data(json_ret, text, req.file, ann_ret, req), disk)
    /\ trace' = trace \o <<"assemble", "write", "respond">>
    /\ Ends(JSONResponse(response_data(json_ret, text, req.file, ann_ret, req)))
    /\ UNCHANGED <<req, calls, range_ret, price_str, parse_ret, pix, y_ret>>

NextService ==
    \/ \E r \in Requests : Lookup(r)
    \/ Validate
    \/ \E o \in ModelOutcomes : CallModel(o)
    \/ Annotate
    \/ \E disk \in DiskOutcomes : Respond(disk)

SpecService == InitService /\ [][NextService]_vars

\* how often the request has done x
Occurrences(done, x) == Cardinality({i \in DOMAIN done : done[i] = x})

\* C22: once the model has given a text, no failure of the extraction or of
\* the annotation aborts the request: the extraction step goes on to the
\* response, and the response has status 200 with success true, the analysis
\* record and the annotated image, null when none could be produced.  Texts
\* spelling NaN are left out.
C22_CoreNeverAborts ==
    [][ /\ (pc = "annotate" /\ ~req.spelled.nan) => pc' = "respond"
        /\ (pc = "respond" /\ ~json_ret.nan)
              => /\ resp'.status = 200
                 /\ resp'.body.success
                 /\ resp'.body.analysis = json_ret
                 /\ resp'.body.annotated_image = ann_ret ]_vars

\* C26: when the extraction fell back to the raw text, the fallback record
\* reaches annotate_chart, and the prices the recovery finds in the text
\* are drawn on the annotated image of the response.
C26_FallbackReachesAnnotator ==
    (pc = "respond" /\ json_ret.extracted.kind = "fallback")
        => /\ Occurrences(trace, "annotate") = 1
           /\ ScrapedPrices(analysis.raw_text) # <<>>
                 => /\ ann_ret.kind = "png"
                    /\ ann_ret.of.elements # <<>>

\* C27: a response served from the cache was stored for the image bytes and
\* for the timeframe, asset_type and trade_direction of the request it
\* answers.
C27_HitForSameRequest ==
    (pc = "idle" /\ trace = <<"lookup">> /\ resp.status = 200)
        => /\ resp.body.original_image = req.file.content
           /\ resp.body.metadata.timeframe = req.timeframe
           /\ resp.body.metadata.asset_type = req.asset_type
           /\ resp.body.metadata.trade_direction = req.trade_direction

\* C28: the cache changes only in the step that completes a request with
\* status 200 and success true, and a request with an empty upload ends
\* with status 400.
C28_OnlySuccessesCached ==
    [][ /\ cache' # cache
              => (pc' = "idle" /\ resp'.status = 200 /\ resp'.body.success)
        /\ (pc' = "idle" /\ req'.file = EmptyUpload) => resp'.status = 400 ]_vars

\* C29: the lookup is the first step of a request; on a hit the stored
\* response is returned and nothing else is done; a missing or unreadable
\* file is a miss; the model is called and the cache written at most once,
\* the write after the assembly; the response does not depend on the
\* outcome of the write.
C29_LookupFirst ==
    [][ /\ trace' # <<>> => trace'[1] = "lookup"
        /\ (pc = "idle" /\ cache[PathOf(req')].kind = "file")
              => /\ pc' = "idle"
                 /\ trace' = <<"lookup">>
                 /\ cache' = cache
                 /\ resp' = [status |-> 200, body |-> cache[PathOf(req')].data]
        /\ (pc = "idle" /\ cache[PathOf(req')].kind # "file") => pc' = "validate"
        /\ Occurrences(trace', "model") <= 1
        /\ Occurrences(trace', "write") <= 1
        /\ \A i \in DOMAIN trace' :
              trace'[i] = "write" => \E j \in 1..(i - 1) : trace'[j] = "assemble"
        /\ pc = "respond"
              => resp' = JSONResponse(response_data(json_ret, text, req.file, ann_ret, req))
      ]_vars

====
